---- MODULE Spec2Model ----
(***************************************************************************)
(* A model of conn-exporter (the Go program embedded in                    *)
(* install-conn-exporter.sh, lines 688-1643, and its predecessor main.go). *)
(*                                                                         *)
(* Go strings are sequences of one-character strings, so that splitting,   *)
(* prefix tests, hexadecimal decoding and decimal formatting are computed  *)
(* as the code computes them.  Label values that the code only compares    *)
(* for equality (state names, protocol, direction) are TLA+ strings.       *)
(***************************************************************************)
EXTENDS Integers, Sequences, FiniteSets, TLC

VARIABLES
    pc,          \* position of the modelled run
    addr,        \* codec: the address field handed to parseAddress
    origin,      \* codec: the socket address the kernel printed as addr, if any
    parsed,      \* codec: what parseAddress returned for addr
    code,        \* state mapper: the state field handed to connectionState
    stateName,   \* state mapper: what connectionState returned for code
    host,        \* what the host answers: interfaces, commands, tables
    interfaceCache,  \* var interfaceCache map[string]string (nil: not built)
    call,        \* resolver: the last getInterfaceForConnection call
    prevAny,     \* resolver: the latest answer for a source of 0.0.0.0
    pass,        \* per collection pass: where it is in getInterfaceForIP
    tcpTable,    \* /proc/net/tcp as the last TCP read found it
    udpTable,    \* /proc/net/udp as the last UDP read found it
    ssOut,       \* what the last run of `ss -tulnp` gave
    listenPorts, \* Collect's listenPorts / the readers' argument
    ret,         \* reader: what the last read returned
    emitted      \* the metrics sent on the channel by the current pass

codecVars == <<addr, origin, parsed, code, stateName>>

-----------------------------------------------------------------------------
(* Generic string helpers (package strings).                               *)

\* The concatenation of a sequence of strings.
RECURSIVE Concat(_)
Concat(ss) == IF ss = << >> THEN << >> ELSE Head(ss) \o Concat(Tail(ss))

\* strings.HasPrefix
HasPrefix(s, p) == Len(s) >= Len(p) /\ SubSeq(s, 1, Len(p)) = p

\* strings.Contains
Contains(s, p) ==
    \E i \in 1..(Len(s) - Len(p) + 1) : SubSeq(s, i, i + Len(p) - 1) = p

\* strings.Index (1-based; 0 when absent)
IndexOf(s, c) ==
    IF \E i \in 1..Len(s) : s[i] = c
    THEN CHOOSE i \in 1..Len(s) : s[i] = c /\ \A j \in 1..(i - 1) : s[j] # c
    ELSE 0

\* strings.Split(s, sep) for a one-character separator: always at least one part.
RECURSIVE Split(_, _)
Split(s, sep) ==
    LET i == IndexOf(s, sep)
    IN IF i = 0 THEN <<s>>
       ELSE <<SubSeq(s, 1, i - 1)>> \o Split(SubSeq(s, i + 1, Len(s)), sep)

-----------------------------------------------------------------------------
(* Address Codec.                                                          *)

DecDigits == <<"0", "1", "2", "3", "4", "5", "6", "7", "8", "9">>

\* encoding/hex's reverse table and strconv's digit value: -1 for a non-digit.
HexVal(c) ==
    CASE c = "0" -> 0  [] c = "1" -> 1  [] c = "2" -> 2  [] c = "3" -> 3
      [] c = "4" -> 4  [] c = "5" -> 5  [] c = "6" -> 6  [] c = "7" -> 7
      [] c = "8" -> 8  [] c = "9" -> 9
      [] c \in {"a", "A"} -> 10  [] c \in {"b", "B"} -> 11
      [] c \in {"c", "C"} -> 12  [] c \in {"d", "D"} -> 13
      [] c \in {"e", "E"} -> 14  [] c \in {"f", "F"} -> 15
      [] OTHER -> -1

\* hex.DecodeString: pairs of hex digits to bytes; an invalid digit or an odd
\* length is an error.
RECURSIVE DecodeString(_)
DecodeString(s) ==
    IF s = << >> THEN [err |-> "nil", bytes |-> << >>]
    ELSE IF HexVal(s[1]) < 0 THEN [err |-> "hex.InvalidByteError", bytes |-> << >>]
    ELSE IF Len(s) = 1 THEN [err |-> "hex.ErrLength", bytes |-> << >>]
    ELSE IF HexVal(s[2]) < 0 THEN [err |-> "hex.InvalidByteError", bytes |-> << >>]
    ELSE LET rest == DecodeString(SubSeq(s, 3, Len(s)))
         IN IF rest.err # "nil" THEN rest
            ELSE [err |-> "nil",
                  bytes |-> <<16 * HexVal(s[1]) + HexVal(s[2])>> \o rest.bytes]

\* The value of a string of hex digits, most significant first.
RECURSIVE HexNumber(_)
HexNumber(s) ==
    IF s = << >> THEN 0
    ELSE 16 * HexNumber(SubSeq(s, 1, Len(s) - 1)) + HexVal(s[Len(s)])

RECURSIVE StripZeros(_)
StripZeros(s) == IF s # << >> /\ s[1] = "0" THEN StripZeros(Tail(s)) ELSE s

\* A 64-bit signed integer holds 16 hex digits of magnitude when the first is
\* below 8; -8000000000000000 is the one value beyond that.
Int64DigitsMax == 16

\* strconv.ParseInt(s, 16, 64): an optional sign, then one or more hex digits
\* (no prefix, no underscores with an explicit base); a magnitude that does
\* not fit 64 bits is a range error.
ParseInt16(s) ==
    LET neg  == s # << >> /\ s[1] = "-"
        body == IF s # << >> /\ s[1] \in {"+", "-"} THEN Tail(s) ELSE s
        sig  == StripZeros(body)
        over == \/ Len(sig) > Int64DigitsMax
                \/ /\ Len(sig) = Int64DigitsMax
                   /\ HexVal(sig[1]) >= 8
                   /\ ~(neg /\ sig = <<"8">> \o [i \in 1..(Int64DigitsMax - 1) |-> "0"])
    IN IF body = << >> \/ \E i \in 1..Len(body) : HexVal(body[i]) < 0
       THEN [err |-> "strconv.ErrSyntax", val |-> 0]
       ELSE IF over THEN [err |-> "strconv.ErrRange", val |-> 0]
       ELSE [err |-> "nil", val |-> IF neg THEN 0 - HexNumber(sig) ELSE HexNumber(sig)]

\* The decimal digits of a natural number, no leading zeros ("0" for 0).
RECURSIVE FormatNat(_)
FormatNat(n) ==
    IF n < 10 THEN <<DecDigits[n + 1]>>
    ELSE FormatNat(n \div 10) \o <<DecDigits[(n % 10) + 1]>>

\* strconv.FormatInt(n, 10)
FormatInt10(n) == IF n < 0 THEN <<"-">> \o FormatNat(0 - n) ELSE FormatNat(n)

\* net.IP(b).To4().String() for a 4-byte address: dotted decimal.
IPString(b) ==
    FormatNat(b[1]) \o <<".">> \o FormatNat(b[2]) \o <<".">>
        \o FormatNat(b[3]) \o <<".">> \o FormatNat(b[4])

\* Variants of the byte reversal: none at all, and an index slip.
ReverseBytesNone(b) == b

ReverseBytesSlip(b) == <<b[4], b[3], b[2], b[2]>>

\* parseAddress, lines 1511-1515: the four bytes in reversed order.
ReverseBytes(b) == <<b[4], b[3], b[2], b[1]>>

\* parseAddress, line 1509: the decoded length of an IPv4 address.
IPv4Len == 4

IPv6Len == 16

\* parseAddress(addr) (string, string, error)
parseAddress(a) ==
    LET parts == Split(a, ":")
    IN IF Len(parts) # 2
       THEN [err |-> "invalid address format", ip |-> << >>, port |-> << >>]
       ELSE LET ipb  == DecodeString(parts[1])
                port == ParseInt16(parts[2])
            IN IF ipb.err # "nil"
               THEN [err |-> ipb.err, ip |-> << >>, port |-> << >>]
               ELSE IF port.err # "nil"
               THEN [err |-> port.err, ip |-> << >>, port |-> << >>]
               ELSE IF Len(ipb.bytes) = IPv4Len
               THEN [err |-> "nil", ip |-> IPString(ReverseBytes(ipb.bytes)),
                     port |-> FormatInt10(port.val)]
               ELSE IF Len(ipb.bytes) = IPv6Len
               THEN [err |-> "IPv6 support is currently disabled",
                     ip |-> << >>, port |-> << >>]
               ELSE [err |-> "invalid IP address length", ip |-> << >>, port |-> << >>]

\* The value of a decimal digit: -1 for any other character.
DecVal(c) ==
    IF \E i \in 1..10 : DecDigits[i] = c
    THEN (CHOOSE i \in 1..10 : DecDigits[i] = c) - 1
    ELSE -1

IsDecimal(s) == s # << >> /\ \A i \in 1..Len(s) : DecVal(s[i]) >= 0

RECURSIVE DecNumber(_)
DecNumber(s) ==
    IF s = << >> THEN 0
    ELSE 10 * DecNumber(SubSeq(s, 1, Len(s) - 1)) + DecVal(s[Len(s)])

\* One field of a dotted-decimal address as net.ParseIP accepts it: one to
\* three decimal digits, no leading zero, at most 255.
OctetOK(s) ==
    /\ IsDecimal(s)
    /\ Len(s) <= 3
    /\ (Len(s) > 1 => s[1] # "0")
    /\ DecNumber(s) <= 255

\* net.ParseIP for the dotted-decimal form: the four bytes, or nil.
ParseIP(s) ==
    LET parts == Split(s, ".")
    IN IF Len(parts) = 4 /\ \A i \in 1..4 : OctetOK(parts[i])
       THEN [ok |-> TRUE, bytes |-> [i \in 1..4 |-> DecNumber(parts[i])]]
       ELSE [ok |-> FALSE, bytes |-> << >>]

-----------------------------------------------------------------------------
(* State Mapper.                                                           *)

connectionStateNoDefault(s) ==
    CASE s = <<"0", "1">> -> "ESTABLISHED"
      [] s = <<"0", "2">> -> "SYN_SENT"
      [] s = <<"0", "3">> -> "SYN_RECV"
      [] s = <<"0", "4">> -> "FIN_WAIT1"
      [] s = <<"0", "5">> -> "FIN_WAIT2"
      [] s = <<"0", "6">> -> "TIME_WAIT"
      [] s = <<"0", "7">> -> "CLOSE"
      [] s = <<"0", "8">> -> "CLOSE_WAIT"
      [] s = <<"0", "9">> -> "LAST_ACK"
      [] s = <<"0", "A">> -> "LISTEN"
      [] s = <<"0", "B">> -> "CLOSING"
      [] OTHER -> "error"

\* connectionState(s string) string
connectionState(s) ==
    CASE s = <<"0", "1">> -> "ESTABLISHED"
      [] s = <<"0", "2">> -> "SYN_SENT"
      [] s = <<"0", "3">> -> "SYN_RECV"
      [] s = <<"0", "4">> -> "FIN_WAIT1"
      [] s = <<"0", "5">> -> "FIN_WAIT2"
      [] s = <<"0", "6">> -> "TIME_WAIT"
      [] s = <<"0", "7">> -> "CLOSE"
      [] s = <<"0", "8">> -> "CLOSE_WAIT"
      [] s = <<"0", "9">> -> "LAST_ACK"
      [] s = <<"0", "A">> -> "LISTEN"
      [] s = <<"0", "B">> -> "CLOSING"
      [] OTHER -> "UNKNOWN"

-----------------------------------------------------------------------------
(* The host's network configuration, as the program observes it.           *)

LO         == <<"l", "o">>
ETH0       == <<"e", "t", "h", "0">>
ENS3       == <<"e", "n", "s", "3">>
BOND0      == <<"b", "o", "n", "d", "0">>
WLAN0      == <<"w", "l", "a", "n", "0">>
DOCKER0    == <<"d", "o", "c", "k", "e", "r", "0">>
VETH1      == <<"v", "e", "t", "h", "1">>
BR_LAN     == <<"b", "r", "-", "l", "a", "n">>
VIRBR1     == <<"v", "i", "r", "b", "r", "1">>
VIRBR2     == <<"v", "i", "r", "b", "r", "2">>
UNKNOWN_IF == <<"u", "n", "k", "n", "o", "w", "n">>

\* An address of an interface as iface.Addrs() returns it: a *net.IPNet
\* ("IPNet"), a *net.IPAddr ("IPAddr") or another net.Addr; v4 tells an
\* IPv4 address (To4() != nil) from an IPv6 one.
Net4(a, b, c, d, bits) ==
    [kind |-> "IPNet", v4 |-> TRUE, ip |-> <<a, b, c, d>>, bits |-> bits]
Net6 == [kind |-> "IPNet", v4 |-> FALSE, ip |-> <<0, 0, 0, 0>>, bits |-> 64]

Iface(name, up, loopback, addrs) ==
    [name |-> name, up |-> up, loopback |-> loopback, addrsErr |-> FALSE,
     addrs |-> addrs]

LoIface == Iface(LO, TRUE, TRUE, <<Net4(127, 0, 0, 1, 8)>>)

\* The interface configurations the host moves between: the interfaces in
\* enumeration order, and the device of the default route (<< >>: none).
NetConfigs == <<
    \* a server: two addresses on eth0, a docker bridge
    [ifaces |-> <<LoIface,
                  Iface(ETH0, TRUE, FALSE,
                        <<Net4(10, 0, 0, 5, 24), Net4(10, 0, 0, 6, 24), Net6>>),
                  Iface(DOCKER0, TRUE, FALSE, <<Net4(172, 17, 0, 1, 16)>>)>>,
     defaultDev |-> ETH0],
    \* a bonded host: the bond carries the address, its slave none
    [ifaces |-> <<LoIface,
                  Iface(WLAN0, TRUE, FALSE, <<Net4(192, 168, 5, 9, 24)>>),
                  Iface(ETH0, TRUE, FALSE, <<Net6>>),
                  Iface(BOND0, TRUE, FALSE, <<Net4(192, 168, 1, 10, 24)>>)>>,
     defaultDev |-> BOND0],
    \* the address 10.0.0.5 has moved to wlan0; a bridge and a veth are up
    [ifaces |-> <<LoIface,
                  Iface(BR_LAN, TRUE, FALSE, <<Net4(172, 18, 0, 1, 16)>>),
                  Iface(VETH1, TRUE, FALSE, <<Net4(10, 0, 0, 6, 24)>>),
                  Iface(WLAN0, TRUE, FALSE, <<Net4(10, 0, 0, 5, 24)>>)>>,
     defaultDev |-> WLAN0],
    \* nothing but loopback is up
    [ifaces |-> <<LoIface,
                  Iface(ETH0, FALSE, FALSE, <<Net4(10, 0, 0, 5, 24)>>)>>,
     defaultDev |-> << >>],
    \* a bond without an IPv4 address, a bridge, a port that is down, the
    \* uplink ens3 with two addresses, and a wlan0 that bears the second of
    \* them as well
    [ifaces |-> <<LoIface,
                  Iface(BOND0, TRUE, FALSE, <<Net6>>),
                  Iface(DOCKER0, TRUE, FALSE, <<Net4(172, 17, 0, 1, 16)>>),
                  Iface(ETH0, FALSE, FALSE, <<Net4(10, 0, 0, 7, 24)>>),
                  Iface(ENS3, TRUE, FALSE,
                        <<Net4(10, 0, 0, 5, 24), Net4(10, 0, 0, 6, 24)>>),
                  Iface(WLAN0, TRUE, FALSE, <<Net4(10, 0, 0, 6, 24)>>)>>,
     defaultDev |-> ENS3]
>>

\* The candidate paths of the ip command, in the order the code tries them.
NumIpPaths == 5

\* env.cfg: the current configuration; env.ifErr: what net.Interfaces()
\* answers ("nil", "netlink": an address-family / netlinkrib error, "other");
\* env.ipAt: the one candidate path at which the ip command runs (0: none).
Ifaces(env) == NetConfigs[env.cfg].ifaces
DefaultDev(env) == NetConfigs[env.cfg].defaultDev

-----------------------------------------------------------------------------
(* Interface Resolver.                                                     *)

IP_LOOPBACK == <<"1", "2", "7", ".", "0", ".", "0", ".", "1">>
IP_ANY == <<"0", ".", "0", ".", "0", ".", "0">>

EmptyMap == << >>
NilCache == [built |-> FALSE, m |-> EmptyMap]
MapOf(m) == [built |-> TRUE, m |-> m]

Put(m, k, v) == (k :> v) @@ m

\* net.IP.IsLoopback / IsUnspecified for an IPv4 address.
IsLoopback(b) == b[1] = 127
IsUnspecified(b) == b = <<0, 0, 0, 0>>

RECURSIVE Pow2(_)
Pow2(n) == IF n = 0 THEN 1 ELSE 2 * Pow2(n - 1)

\* net.IPNet.Contains for IPv4: the first `bits` bits agree.
NetContains(n, b) ==
    /\ n.v4
    /\ \A i \in 1..4 :
           LET k == IF n.bits >= 8 * i THEN 8
                    ELSE IF n.bits <= 8 * (i - 1) THEN 0
                    ELSE n.bits - 8 * (i - 1)
           IN (n.ip[i] \div Pow2(8 - k)) = (b[i] \div Pow2(8 - k))

\* getNetworkInterfaces, lines 739-741: the interface types left out.
SkippedByName(name) ==
    \/ Contains(name, <<"d", "o", "c", "k", "e", "r">>)
    \/ (Contains(name, <<"v", "e", "t", "h">>) /\ ~Contains(name, <<"v", "n", "e", "t">>))
    \/ (Contains(name, <<"b", "r", "-">>) /\ ~Contains(name, <<"v", "i", "r", "b", "r">>))

\* A variant that maps the first address of an interface only.
AddAddrsFirstOnly(m, name, addrs) ==
    IF addrs = << >> THEN m
    ELSE LET a == Head(addrs)
             keep == /\ a.kind \in {"IPNet", "IPAddr"}
                     /\ a.v4
                     /\ ~IsLoopback(a.ip)
                     /\ ~IsUnspecified(a.ip)
         IN IF keep THEN Put(m, IPString(a.ip), name) ELSE m

\* getNetworkInterfaces, lines 764-799: the addresses of one interface.
RECURSIVE AddAddrs(_, _, _)
AddAddrs(m, name, addrs) ==
    IF addrs = << >> THEN m
    ELSE LET a == Head(addrs)
             keep == /\ a.kind \in {"IPNet", "IPAddr"}
                     /\ a.v4
                     /\ ~IsLoopback(a.ip)
                     /\ ~IsUnspecified(a.ip)
         IN AddAddrs(IF keep THEN Put(m, IPString(a.ip), name) ELSE m,
                     name, Tail(addrs))

\* getNetworkInterfaces, lines 732-800: the loop over the interfaces.
RECURSIVE EnumerateInto(_, _)
EnumerateInto(m, ifs) ==
    IF ifs = << >> THEN m
    ELSE LET i == Head(ifs)
             skip == \/ ~i.up
                     \/ i.loopback
                     \/ SkippedByName(i.name)
                     \/ i.addrsErr
         IN EnumerateInto(IF skip THEN m ELSE AddAddrs(m, i.name, i.addrs),
                          Tail(ifs))

\* strings.TrimSpace and strings.Fields (the only white space is the blank).
RECURSIVE TrimLeft(_)
TrimLeft(s) == IF s # << >> /\ s[1] = " " THEN TrimLeft(Tail(s)) ELSE s

RECURSIVE TrimRight(_)
TrimRight(s) ==
    IF s # << >> /\ s[Len(s)] = " " THEN TrimRight(SubSeq(s, 1, Len(s) - 1)) ELSE s

TrimSpace(s) == TrimRight(TrimLeft(s))

RECURSIVE Fields(_)
Fields(s) ==
    LET t == TrimLeft(s)
        i == IndexOf(t, " ")
    IN IF t = << >> THEN << >>
       ELSE IF i = 0 THEN <<t>>
       ELSE <<SubSeq(t, 1, i - 1)>> \o Fields(SubSeq(t, i + 1, Len(t)))

\* What the ip command prints for `ip -4 addr show`: per interface that has
\* an IPv4 address a header line and one inet line per address.
RECURSIVE InetLines(_, _, _)
InetLines(name, addrs, first) ==
    IF addrs = << >> THEN << >>
    ELSE LET a == Head(addrs)
         IN IF a.v4
            THEN <<<<" ", " ", " ", " ", "i", "n", "e", "t", " ">>
                     \o IPString(a.ip) \o <<"/">> \o FormatNat(a.bits)
                     \o <<" ", "s", "c", "o", "p", "e", " ">>
                     \o (IF first THEN << >>
                         ELSE <<"s", "e", "c", "o", "n", "d", "a", "r", "y", " ">>)
                     \o name>>
                 \o InetLines(name, Tail(addrs), FALSE)
            ELSE InetLines(name, Tail(addrs), first)

RECURSIVE IpAddrShow(_, _)
IpAddrShow(ifs, index) ==
    IF ifs = << >> THEN << >>
    ELSE LET i == Head(ifs)
             inet == InetLines(i.name, i.addrs, TRUE)
         IN (IF inet = << >> THEN << >>
             ELSE <<FormatNat(index) \o <<":", " ">> \o i.name \o <<":", " ", "<">>
                      \o (IF i.up THEN <<"U", "P">> ELSE <<"N", "O">>)
                      \o <<">", " ", "m", "t", "u">>>> \o inet)
            \o IpAddrShow(Tail(ifs), index + 1)

\* What the ip command prints for `ip route show default`.
IpRouteShowDefault(env) ==
    IF DefaultDev(env) = << >> THEN << >>
    ELSE <<<<"d", "e", "f", "a", "u", "l", "t", " ", "v", "i", "a", " ", "g", "w",
             " ", "d", "e", "v", " ">> \o DefaultDev(env)
             \o <<" ", "p", "r", "o", "t", "o", " ", "d", "h", "c", "p">>>>

\* The first interface, of those that are up, whose subnet holds the address.
RECURSIVE ConnectedDev(_, _)
ConnectedDev(ifs, b) ==
    IF ifs = << >> THEN << >>
    ELSE IF Head(ifs).up /\ \E k \in 1..Len(Head(ifs).addrs) :
                                 NetContains(Head(ifs).addrs[k], b)
    THEN Head(ifs).name
    ELSE ConnectedDev(Tail(ifs), b)

\* What the ip command prints for `ip route get <dst>`: the route's device,
\* or nothing and a failure exit when the destination cannot be routed.
IpRouteGet(env, dst) ==
    LET b   == ParseIP(dst)
        dev == IF ~b.ok THEN << >>
               ELSE IF ConnectedDev(Ifaces(env), b.bytes) # << >>
               THEN ConnectedDev(Ifaces(env), b.bytes)
               ELSE DefaultDev(env)
    IN IF dev = << >> THEN [err |-> TRUE, lines |-> << >>]
       ELSE [err |-> FALSE,
             lines |-> <<dst \o <<" ", "v", "i", "a", " ", "g", "w", " ",
                                 "d", "e", "v", " ">> \o dev
                             \o <<" ", "u", "i", "d", " ", "0">>>>]

\* The loop over the candidate paths of the ip command, lines 826-834,
\* 985-991 and 1176-1182: the paths tried, up to the first that runs.
PathsTried(env, cmdOK) ==
    IF env.ipAt = 0 \/ ~cmdOK THEN [ok |-> FALSE, tried |-> NumIpPaths]
    ELSE [ok |-> TRUE, tried |-> env.ipAt]

\* The word after the first "dev" of a line, or << >>.
DevOf(fs) ==
    IF \E i \in 1..(Len(fs) - 1) : fs[i] = <<"d", "e", "v">>
    THEN fs[(CHOOSE i \in 1..(Len(fs) - 1) :
                /\ fs[i] = <<"d", "e", "v">>
                /\ \A j \in 1..(i - 1) : fs[j] # <<"d", "e", "v">>) + 1]
    ELSE << >>

FALLBACK_PRIMARY_IP ==
    <<"1", "9", "2", ".", "1", "6", "8", ".", "2", "0", "0", ".", "1", "7", "9">>
FALLBACK_VIRBR2_IP == <<"1", "7", "2", ".", "1", "6", ".", "1", "0", ".", "1">>
FALLBACK_VIRBR1_IP == <<"1", "9", "2", ".", "1", "6", "8", ".", "1", "0", "0", ".", "1">>

\* getNetworkInterfacesFallback, lines 993-1014: the default-route lines.
RECURSIVE FallbackRoutes(_, _)
FallbackRoutes(m, lines) ==
    IF lines = << >> THEN m
    ELSE LET dev == DevOf(Fields(Head(lines)))
             hit == /\ Contains(Head(lines),
                                <<"d", "e", "f", "a", "u", "l", "t", " ", "v", "i", "a">>)
                    /\ dev # << >>
         IN FallbackRoutes(IF hit THEN Put(m, FALLBACK_PRIMARY_IP, dev) ELSE m,
                           Tail(lines))

\* getNetworkInterfacesFallback: the hardcoded mapping of the last resort.
getNetworkInterfacesFallback(env) ==
    LET run == PathsTried(env, env.routeOK)
        m0  == IF run.ok THEN FallbackRoutes(EmptyMap, IpRouteShowDefault(env))
               ELSE EmptyMap
    IN [m |-> Put(Put(m0, FALLBACK_VIRBR2_IP, VIRBR2), FALLBACK_VIRBR1_IP, VIRBR1),
        steps |-> <<[step |-> "ip route show default", tried |-> run.tried]>>]

\* getNetworkInterfacesManual, lines 844-904: the lines of `ip -4 addr show`.
RECURSIVE ManualParse(_, _, _)
ManualParse(m, cur, lines) ==
    IF lines = << >> THEN m
    ELSE LET line == TrimSpace(Head(lines))
             parts == Split(line, ":")
             cur2 == IF /\ Contains(line, <<":", " ", "<">>)
                        /\ ~HasPrefix(line, <<"i", "n", "e", "t">>)
                        /\ Len(parts) >= 2
                     THEN TrimSpace(parts[2]) ELSE cur
             fs == Fields(line)
             cidr == IF Len(fs) >= 2 THEN fs[2] ELSE << >>
             slash == IndexOf(cidr, "/")
             ip == SubSeq(cidr, 1, slash - 1)
             add == /\ HasPrefix(line, <<"i", "n", "e", "t", " ">>)
                    /\ cur2 # << >>
                    /\ Len(fs) >= 2
                    /\ slash > 1
                    /\ ip # IP_LOOPBACK
                    /\ cur2 # LO
         IN ManualParse(IF add THEN Put(m, ip, cur2) ELSE m, cur2, Tail(lines))

\* getNetworkInterfacesManual() (map[string]string, error): never an error.
\* Line 838: the fallback's map is returned with a nil error.
ReturnFallback(st, fb) == [err |-> FALSE, m |-> fb.m, steps |-> st \o fb.steps]

getNetworkInterfacesManual(env) ==
    LET run == PathsTried(env, env.addrOK)
        st  == <<[step |-> "ip -4 addr show", tried |-> run.tried]>>
    IN IF ~run.ok
       THEN ReturnFallback(st, getNetworkInterfacesFallback(env))
       ELSE [err |-> FALSE,
             m |-> ManualParse(EmptyMap, << >>, IpAddrShow(Ifaces(env), 1)),
             steps |-> st]

\* A variant that falls back to the ip command after any error of
\* net.Interfaces.
getNetworkInterfacesOnAnyError(env) ==
    LET st == <<[step |-> "net.Interfaces", tried |-> 1]>>
    IN IF env.ifErr # "nil"
       THEN [err |-> FALSE,
             m |-> getNetworkInterfacesManual(env).m,
             steps |-> st \o getNetworkInterfacesManual(env).steps]
       ELSE [err |-> FALSE, m |-> EnumerateInto(EmptyMap, Ifaces(env)), steps |-> st]

\* getNetworkInterfaces() (map[string]string, error)
\* Line 724: the manual parser's result is returned as it is.
ReturnManual(st, man) == [err |-> man.err, m |-> man.m, steps |-> st \o man.steps]

getNetworkInterfaces(env) ==
    LET st == <<[step |-> "net.Interfaces", tried |-> 1]>>
    IN IF env.ifErr = "netlink"
       THEN ReturnManual(st, getNetworkInterfacesManual(env))
       ELSE IF env.ifErr # "nil"
       THEN [err |-> TRUE, m |-> EmptyMap, steps |-> st]
       ELSE [err |-> FALSE, m |-> EnumerateInto(EmptyMap, Ifaces(env)), steps |-> st]

\* getPrimaryInterface, lines 1260-1265: the interface has an IPv4 *net.IPNet.
HasIPv4Net(i) ==
    /\ ~i.addrsErr
    /\ \E k \in 1..Len(i.addrs) : i.addrs[k].kind = "IPNet" /\ i.addrs[k].v4

\* The name of the first interface among those up and not loopback that has
\* one of the name prefixes (any name when there is none) and an IPv4
\* address; << >> when there is none.
\* A variant that does not leave the loopback interfaces out.
RECURSIVE FirstCandidateWithLoopback(_, _)
FirstCandidateWithLoopback(ifs, prefixes) ==
    IF ifs = << >> THEN << >>
    ELSE LET i == Head(ifs)
         IN IF /\ i.up
               /\ (prefixes = {} \/ \E p \in prefixes : HasPrefix(i.name, p))
               /\ HasIPv4Net(i)
            THEN i.name
            ELSE FirstCandidateWithLoopback(Tail(ifs), prefixes)

RECURSIVE FirstCandidate(_, _)
FirstCandidate(ifs, prefixes) ==
    IF ifs = << >> THEN << >>
    ELSE LET i == Head(ifs)
         IN IF /\ ~i.loopback
               /\ i.up
               /\ (prefixes = {} \/ \E p \in prefixes : HasPrefix(i.name, p))
               /\ HasIPv4Net(i)
            THEN i.name
            ELSE FirstCandidate(Tail(ifs), prefixes)

\* A variant without the priorities: the first interface that is up, not
\* loopback and has an IPv4 address.
getPrimaryInterfaceFirstUp(env) ==
    LET any == FirstCandidate(Ifaces(env), {})
    IN IF env.ifErr # "nil" THEN UNKNOWN_IF
       ELSE IF any # << >> THEN any
       ELSE UNKNOWN_IF

\* getPrimaryInterface() string
getPrimaryInterface(env) ==
    LET bond == FirstCandidate(Ifaces(env), {<<"b", "o", "n", "d">>})
        eth  == FirstCandidate(Ifaces(env), {<<"e", "t", "h">>, <<"e", "n">>})
        any  == FirstCandidate(Ifaces(env), {})
    IN IF env.ifErr # "nil" THEN UNKNOWN_IF
       ELSE IF bond # << >> THEN bond
       ELSE IF eth # << >> THEN eth
       ELSE IF any # << >> THEN any
       ELSE UNKNOWN_IF

\* getInterfaceBySubnet, lines 1215-1233: the loop over the interfaces.
RECURSIVE SubnetOwner(_, _)
SubnetOwner(ifs, b) ==
    IF ifs = << >> THEN UNKNOWN_IF
    ELSE LET i == Head(ifs)
         IN IF /\ i.up
               /\ ~i.loopback
               /\ ~i.addrsErr
               /\ \E k \in 1..Len(i.addrs) :
                      i.addrs[k].kind = "IPNet" /\ NetContains(i.addrs[k], b)
            THEN i.name
            ELSE SubnetOwner(Tail(ifs), b)

\* getInterfaceBySubnet(targetIP string) string
getInterfaceBySubnet(env, targetIP) ==
    IF env.ifErr # "nil" THEN UNKNOWN_IF
    ELSE IF ~ParseIP(targetIP).ok THEN UNKNOWN_IF
    ELSE SubnetOwner(Ifaces(env), ParseIP(targetIP).bytes)

\* getInterfaceForDestination, lines 1190-1198: the first word after a "dev".
RECURSIVE FirstDev(_)
FirstDev(lines) ==
    IF lines = << >> THEN UNKNOWN_IF
    ELSE IF DevOf(Fields(Head(lines))) # << >> THEN DevOf(Fields(Head(lines)))
    ELSE FirstDev(Tail(lines))

\* getInterfaceForDestination(destIP string) string
getInterfaceForDestination(env, destIP) ==
    LET out == IpRouteGet(env, destIP)
        run == PathsTried(env, env.routeOK /\ ~out.err)
    IN [iface |-> IF run.ok THEN FirstDev(out.lines) ELSE UNKNOWN_IF,
        steps |-> <<[step |-> "ip route get", tried |-> run.tried]>>]

\* isLocalIP(ip string) bool
isLocalIP(ip) ==
    \/ ip = IP_LOOPBACK
    \/ ip = IP_ANY
    \/ /\ ParseIP(ip).ok
       /\ \/ IsLoopback(ParseIP(ip).bytes)
          \/ HasPrefix(ip, <<"1", "9", "2", ".", "1", "6", "8", ".">>)
          \/ HasPrefix(ip, <<"1", "7", "2", ".", "1", "6", ".">>)
          \/ HasPrefix(ip, <<"1", "0", ".">>)
          \/ HasPrefix(ip, <<"1", "6", "9", ".", "2", "5", "4", ".">>)

Has(m, k) == k \in DOMAIN m

PrimaryStep == <<[step |-> "getPrimaryInterface", tried |-> 1]>>
SubnetStep == <<[step |-> "getInterfaceBySubnet", tried |-> 1]>>

\* getInterfaceForIP, lines 1145-1164: the refresh of the cache on a miss.
\* r is what getNetworkInterfaces returned at line 1149.
RetryIn(ip, env, stepsSoFar, r) ==
    IF r.err
    THEN [iface |-> UNKNOWN_IF, cache |-> NilCache, steps |-> stepsSoFar \o r.steps]
    ELSE IF Has(r.m, ip)
    THEN [iface |-> r.m[ip], cache |-> MapOf(r.m), steps |-> stepsSoFar \o r.steps]
    ELSE [iface |-> getInterfaceBySubnet(env, ip), cache |-> MapOf(r.m),
          steps |-> stepsSoFar \o r.steps \o SubnetStep]

RefreshAndRetry(ip, env, stepsSoFar) ==
    RetryIn(ip, env, stepsSoFar, getNetworkInterfaces(env))

\* A variant that, on a miss, goes on to the subnet match with the cache it
\* has.
LookupBuiltNoRefresh(ip, cache, env, stepsSoFar) ==
    IF Has(cache.m, ip)
    THEN [iface |-> cache.m[ip], cache |-> cache, steps |-> stepsSoFar]
    ELSE [iface |-> getInterfaceBySubnet(env, ip), cache |-> cache,
          steps |-> stepsSoFar \o SubnetStep]

\* getInterfaceForIP, lines 1129-1166: the lookup in a cache that is built.
LookupBuilt(ip, cache, env, stepsSoFar) ==
    IF Has(cache.m, ip)
    THEN [iface |-> cache.m[ip], cache |-> cache, steps |-> stepsSoFar]
    ELSE IF ip = IP_LOOPBACK
    THEN [iface |-> LO, cache |-> cache, steps |-> stepsSoFar]
    ELSE IF ip = IP_ANY
    THEN [iface |-> getPrimaryInterface(env), cache |-> cache,
          steps |-> stepsSoFar \o PrimaryStep]
    ELSE RefreshAndRetry(ip, env, stepsSoFar)

\* getInterfaceForIP(ip string) string, with the cache it leaves behind and
\* the system queries it made.
\* Lines 1120-1127: the cache after the check for nil.  r is what
\* getNetworkInterfaces returned at line 1122.
Built(r) ==
    IF r.err THEN [err |-> TRUE, cache |-> NilCache, steps |-> r.steps]
    ELSE [err |-> FALSE, cache |-> MapOf(r.m), steps |-> r.steps]
EnsureCache(cache, env) ==
    IF ~cache.built THEN Built(getNetworkInterfaces(env))
    ELSE [err |-> FALSE, cache |-> cache, steps |-> << >>]

\* Lines 1124-1166, e being the outcome of lines 1120-1123.
LookupEnsured(ip, env, e) ==
    IF e.err THEN [iface |-> UNKNOWN_IF, cache |-> e.cache, steps |-> e.steps]
    ELSE LookupBuilt(ip, e.cache, env, e.steps)

getInterfaceForIP(ip, cache, env) == LookupEnsured(ip, env, EnsureCache(cache, env))

\* getInterfaceForConnection, lines 1080-1095: a destination other than 0.0.0.0.
\* Lines 1080-1085: the interface of the source address.
BySource(sourceIP, cache, env) ==
    IF sourceIP # IP_ANY /\ sourceIP # IP_LOOPBACK
    THEN getInterfaceForIP(sourceIP, cache, env)
    ELSE [iface |-> UNKNOWN_IF, cache |-> cache, steps |-> << >>]

\* Lines 1087-1092: the interface of the route to the destination.
ByDestination(destIP, env) ==
    IF ~isLocalIP(destIP)
    THEN getInterfaceForDestination(env, destIP)
    ELSE [iface |-> UNKNOWN_IF, steps |-> << >>]

\* Lines 1081-1095: the first of the three answers that is not "unknown".
FirstKnown(bySrc, byDst, env) ==
    IF bySrc.iface # UNKNOWN_IF THEN bySrc
    ELSE IF byDst.iface # UNKNOWN_IF
    THEN [iface |-> byDst.iface, cache |-> bySrc.cache,
          steps |-> bySrc.steps \o byDst.steps]
    ELSE [iface |-> getPrimaryInterface(env), cache |-> bySrc.cache,
          steps |-> bySrc.steps \o byDst.steps \o PrimaryStep]

ResolveEstablished(sourceIP, destIP, cache, env) ==
    FirstKnown(BySource(sourceIP, cache, env), ByDestination(destIP, env), env)

\* A variant that answers a listener on 0.0.0.0 from the cache once it is
\* built: with the interface of the first address the cache holds.
getInterfaceForConnectionFromCache(sourceIP, destIP, cache, env) ==
    IF sourceIP = IP_LOOPBACK \/ destIP = IP_LOOPBACK
    THEN [iface |-> LO, cache |-> cache, steps |-> << >>]
    ELSE IF destIP = IP_ANY
    THEN IF sourceIP = IP_ANY
         THEN IF cache.built /\ DOMAIN cache.m # {}
              THEN [iface |-> cache.m[CHOOSE k \in DOMAIN cache.m : TRUE],
                    cache |-> cache, steps |-> << >>]
              ELSE [iface |-> getPrimaryInterface(env), cache |-> cache,
                    steps |-> PrimaryStep]
         ELSE getInterfaceForIP(sourceIP, cache, env)
    ELSE ResolveEstablished(sourceIP, destIP, cache, env)

\* A variant that asks getInterfaceForIP for the source address at once, as
\* main.go does.
getInterfaceForConnectionBySource(sourceIP, destIP, cache, env) ==
    getInterfaceForIP(sourceIP, cache, env)

\* getInterfaceForConnection(sourceIP, destIP string) string, with the cache
\* it leaves behind and the system queries it made.
getInterfaceForConnection(sourceIP, destIP, cache, env) ==
    IF sourceIP = IP_LOOPBACK \/ destIP = IP_LOOPBACK
    THEN [iface |-> LO, cache |-> cache, steps |-> << >>]
    ELSE IF destIP = IP_ANY
    THEN IF sourceIP = IP_ANY
         THEN [iface |-> getPrimaryInterface(env), cache |-> cache,
               steps |-> PrimaryStep]
         ELSE getInterfaceForIP(sourceIP, cache, env)
    ELSE ResolveEstablished(sourceIP, destIP, cache, env)

-----------------------------------------------------------------------------
(* Process Attribution: the output of `ss -tulnp`, lines 1390-1438.        *)

\* strings.LastIndex (1-based; 0 when absent)
LastIndexOf(s, c) ==
    IF \E i \in 1..Len(s) : s[i] = c
    THEN CHOOSE i \in 1..Len(s) : s[i] = c /\ \A j \in (i + 1)..Len(s) : s[j] # c
    ELSE 0

\* strings.Trim(s, cutset)
RECURSIVE TrimSet(_, _)
TrimSet(s, cut) ==
    IF s # << >> /\ s[1] \in cut THEN TrimSet(Tail(s), cut)
    ELSE IF s # << >> /\ s[Len(s)] \in cut THEN TrimSet(SubSeq(s, 1, Len(s) - 1), cut)
    ELSE s

\* strings.ReplaceAll(s, c, "")
Without(s, c) == SelectSeq(s, LAMBDA x : x # c)

\* Lines 1410-1413: the process name inside users:(( ... )).
ProcNameOf(procInfo) ==
    LET start == IndexOf(procInfo, "(")
        end   == IndexOf(procInfo, ")")
        details == SubSeq(procInfo, start + 1, end - 1)
    IN Without(TrimSet(Split(details, ",")[1], {"(", ")", "[", "]", "{", "}", " "}),
               "\"")

\* Lines 1415-1431: the port of the local address column.
LocalPortOf(local) ==
    LET parts == Split(local, ":")
    IN IF HasPrefix(local, <<"[">>)
       THEN (IF LastIndexOf(local, ":") # 0
             THEN SubSeq(local, LastIndexOf(local, ":") + 1, Len(local))
             ELSE << >>)
       ELSE IF HasPrefix(local, <<"*", ":">>) THEN parts[2]
       ELSE IF Len(parts) = 2 THEN parts[2]
       ELSE IF Len(parts) > 2 THEN parts[Len(parts)]
       ELSE << >>

\* Lines 1396-1437: the port to process name mapping of the LISTEN lines.
RECURSIVE ParseSs(_, _)
ParseSs(m, lines) ==
    IF lines = << >> THEN m
    ELSE LET fs == Fields(Head(lines))
             procInfo == fs[Len(fs)]
             ok == /\ Len(fs) >= 6
                   /\ fs[2] = <<"L", "I", "S", "T", "E", "N">>
                   /\ Contains(procInfo, <<"u", "s", "e", "r", "s", ":", "(">>)
                   /\ IndexOf(procInfo, "(") # 0
                   /\ IndexOf(procInfo, ")") # 0
                   /\ IndexOf(procInfo, ")") > IndexOf(procInfo, "(")
                   /\ LocalPortOf(fs[5]) # << >>
         IN ParseSs(IF ok THEN Put(m, LocalPortOf(fs[5]), ProcNameOf(procInfo)) ELSE m,
                    Tail(lines))

\* What `ss -tulnp` prints on the host.
SS_HEADER ==
    <<"N", "e", "t", "i", "d", " ", "S", "t", "a", "t", "e", " ", "R", "e",
      "c", "v", "-", "Q", " ", "S", "e", "n", "d", "-", "Q", " ", "L", "o",
      "c", "a", "l", " ", "A", "d", "d", "r", "e", "s", "s", ":", "P", "o",
      "r", "t", " ", "P", "e", "e", "r", " ", "A", "d", "d", "r", "e", "s",
      "s", ":", "P", "o", "r", "t", " ", "P", "r", "o", "c", "e", "s", "s">>
SS_SSHD ==
    <<"t", "c", "p", " ", "L", "I", "S", "T", "E", "N", " ", "0", " ", "1",
      "2", "8", " ", "0", ".", "0", ".", "0", ".", "0", ":", "2", "2", " ",
      "0", ".", "0", ".", "0", ".", "0", ":", "*", " ", "u", "s", "e", "r",
      "s", ":", "(", "(", "\"", "s", "s", "h", "d", "\"", ",", "p", "i", "d",
      "=", "1", ",", "f", "d", "=", "3", ")", ")">>
SS_NGINX ==
    <<"t", "c", "p", " ", "L", "I", "S", "T", "E", "N", " ", "0", " ", "5",
      "1", "1", " ", "*", ":", "8", "0", " ", "*", ":", "*", " ", "u", "s",
      "e", "r", "s", ":", "(", "(", "\"", "n", "g", "i", "n", "x", "\"", ",",
      "p", "i", "d", "=", "2", ",", "f", "d", "=", "6", ")", ",", "(", "\"",
      "n", "g", "i", "n", "x", "\"", ",", "p", "i", "d", "=", "3", ",", "f",
      "d", "=", "6", ")", ")">>
SS_SSHD6 ==
    <<"t", "c", "p", " ", "L", "I", "S", "T", "E", "N", " ", "0", " ", "1",
      "2", "8", " ", "[", ":", ":", "]", ":", "2", "2", " ", "[", ":", ":",
      "]", ":", "*", " ", "u", "s", "e", "r", "s", ":", "(", "(", "\"", "s",
      "s", "h", "d", "\"", ",", "p", "i", "d", "=", "1", ",", "f", "d", "=",
      "4", ")", ")">>
SS_UDP ==
    <<"u", "d", "p", " ", "U", "N", "C", "O", "N", "N", " ", "0", " ", "0",
      " ", "0", ".", "0", ".", "0", ".", "0", ":", "6", "8", " ", "0", ".",
      "0", ".", "0", ".", "0", ":", "*", " ", "u", "s", "e", "r", "s", ":",
      "(", "(", "\"", "d", "h", "c", "l", "i", "e", "n", "t", "\"", ",", "p",
      "i", "d", "=", "4", ",", "f", "d", "=", "6", ")", ")">>
SS_NOPROC ==
    <<"t", "c", "p", " ", "L", "I", "S", "T", "E", "N", " ", "0", " ", "1",
      "2", "8", " ", "1", "0", ".", "0", ".", "0", ".", "5", ":", "4", "4",
      "3", " ", "0", ".", "0", ".", "0", ".", "0", ":", "*">>

\* The outcomes of running ss: the command is absent or fails, or it prints
\* its table.
SsFails == [err |-> TRUE, lines |-> << >>]
SsOutcomes == {
    SsFails,
    [err |-> FALSE, lines |-> <<SS_HEADER, SS_UDP, SS_SSHD, SS_NGINX, SS_SSHD6, SS_NOPROC>>]
}

\* A variant that parses what the command printed even when it failed.
listenProcMapDespiteError(ss) == ParseSs(EmptyMap, ss.lines)

\* Lines 1391-1438: listenProcMap.
listenProcMap(ss) == IF ss.err THEN EmptyMap ELSE ParseSs(EmptyMap, ss.lines)

-----------------------------------------------------------------------------
(* Connection Table Reader, lines 1383-1490 and 1567-1628.                 *)
(* A table source is what os.Open and the bufio.Scanner make of it: it     *)
(* opens or not, the scanner yields `lines`, and when the scan stops on a  *)
(* read error instead of the end of the file, scanner.Err() is non-nil.    *)
(* The set of listening ports is a Go map: nil, or a set of port texts.    *)

MinFields == 10

UNCONN == "UNCONN"
LISTEN == "LISTEN"
ESTABLISHED == "ESTABLISHED"
PORT_ZERO == <<"0">>

NilPorts == [nil |-> TRUE, set |-> {}]
PortSet(S) == [nil |-> FALSE, set |-> S]

\* Lines 708-711 (ports is the listenPorts argument).
directionForEstablishedIncoming(sourcePort, ports) ==
    sourcePort \in ports.set

\* A variant that names every row whose source port has a listening process.
processNameOfAnyState(st, sourcePort, ports, procMap) ==
    IF Has(procMap, sourcePort) THEN procMap[sourcePort] ELSE << >>

\* Lines 1467-1475: the process name of a TCP row.
processNameOf(st, sourcePort, ports, procMap) ==
    LET isListen == connectionState(st) = LISTEN
        isEstablishedIncoming ==
            /\ connectionState(st) = ESTABLISHED
            /\ ~ports.nil
            /\ directionForEstablishedIncoming(sourcePort, ports)
    IN IF (isListen \/ isEstablishedIncoming) /\ Has(procMap, sourcePort)
       THEN procMap[sourcePort]
       ELSE << >>

\* Lines 1478-1486 and 1613-1620: the connection appended for a row.  r is
\* what getInterfaceForConnection returned for the row's two addresses.
Appended(acc, src, dst, state, processName, r) ==
    [conns |-> Append(acc.conns,
                      [sourceAddress |-> src.ip,
                       sourcePort |-> src.port,
                       destinationAddress |-> dst.ip,
                       destinationPort |-> dst.port,
                       state |-> state,
                       sourceInterface |-> r.iface,
                       processName |-> processName]),
     cache |-> r.cache]

\* Lines 1444-1487: the loop over the lines after the header.  acc carries
\* the connections appended so far and the interface cache, which the
\* resolution of one row may rebuild for the next.
RECURSIVE TCPRows(_, _, _, _, _)
TCPRows(lines, acc, ports, procMap, env) ==
    IF lines = << >> THEN acc
    ELSE LET fields == Fields(Head(lines))
             rest == Tail(lines)
         IN IF Len(fields) < MinFields
            THEN TCPRows(rest, acc, ports, procMap, env)
            ELSE LET src == parseAddress(fields[2])
                     dst == parseAddress(fields[3])
                     st == fields[4]
                 IN IF src.err # "nil"
                    THEN TCPRows(rest, acc, ports, procMap, env)
                    ELSE IF dst.err # "nil"
                    THEN TCPRows(rest, acc, ports, procMap, env)
                    ELSE TCPRows(rest,
                                 Appended(acc, src, dst, connectionState(st),
                                          processNameOf(st, src.port, ports, procMap),
                                          getInterfaceForConnection(src.ip, dst.ip,
                                                                    acc.cache, env)),
                                 ports, procMap, env)

\* Lines 1442 and 1577: the first line is scanned and dropped.
AfterHeader(file) == IF file.lines = << >> THEN << >> ELSE Tail(file.lines)

\* Lines 1489 and 1623-1627: what a reader returns after its loop, acc being
\* the outcome of the loop and failed whether the reader found an error of
\* the scanner.
Returned(failed, acc) ==
    IF failed
    THEN [err |-> "scanner.Err", conns |-> << >>, cache |-> acc.cache]
    ELSE [err |-> "nil", conns |-> acc.conns, cache |-> acc.cache]

\* Lines 1383-1490.  The scanner's error is never looked at.
getTCPConnections(file, ss, ports, cache, env) ==
    IF ~file.open
    THEN [err |-> "os.Open", conns |-> << >>, cache |-> cache]
    ELSE Returned(FALSE,
                  TCPRows(AfterHeader(file), [conns |-> << >>, cache |-> cache],
                          ports, listenProcMap(ss), env))

\* A variant that takes every UDP socket as bound.
udpStateBound(sourcePort) == LISTEN

\* Lines 1589-1601: the state of a UDP record.
udpState(sourcePort) == IF sourcePort # PORT_ZERO THEN LISTEN ELSE UNCONN

\* Lines 1579-1621.
RECURSIVE UDPRows(_, _, _)
UDPRows(lines, acc, env) ==
    IF lines = << >> THEN acc
    ELSE LET fields == Fields(Head(lines))
             rest == Tail(lines)
         IN IF Len(fields) < MinFields
            THEN UDPRows(rest, acc, env)
            ELSE LET src == parseAddress(fields[2])
                     dst == parseAddress(fields[3])
                 IN IF src.err # "nil"
                    THEN UDPRows(rest, acc, env)
                    ELSE IF dst.err # "nil"
                    THEN UDPRows(rest, acc, env)
                    ELSE UDPRows(rest,
                                 Appended(acc, src, dst, udpState(src.port),
                                          << >>,
                                          getInterfaceForConnection(src.ip, dst.ip,
                                                                    acc.cache, env)),
                                 env)

\* Lines 1567-1628.  A scan that stopped on an error returns no connection
\* at all; what the rows already resolved did to the cache stays done.
getUDPConnections(file, cache, env) ==
    IF ~file.open
    THEN [err |-> "os.Open", conns |-> << >>, cache |-> cache]
    ELSE Returned(file.scanErr,
                  UDPRows(AfterHeader(file), [conns |-> << >>, cache |-> cache], env))

-----------------------------------------------------------------------------
(* The kernel's side of the table format: /proc/net/{tcp,udp} print a      *)
(* socket address as %08X:%04X of the address word and the port.           *)

HexUpper == <<"0", "1", "2", "3", "4", "5", "6", "7", "8", "9",
              "A", "B", "C", "D", "E", "F">>
HexLower == <<"0", "1", "2", "3", "4", "5", "6", "7", "8", "9",
              "a", "b", "c", "d", "e", "f">>

EncodeByte(b, digits) == <<digits[(b \div 16) + 1], digits[(b % 16) + 1]>>

\* The four bytes of the address word as printed (most significant first),
\* then the port.
KernelAddr(w, port, digits) ==
    EncodeByte(w[1], digits) \o EncodeByte(w[2], digits)
        \o EncodeByte(w[3], digits) \o EncodeByte(w[4], digits) \o <<":">>
        \o EncodeByte(port \div 256, digits) \o EncodeByte(port % 256, digits)

\* Byte and port values the well-formed address fields are built from.
ByteSamples == {0, 1, 10, 127, 192, 255}
PortSamples == {0, 22, 443, 8080, 65535}

NoOrigin == [valid |-> FALSE, word |-> <<0, 0, 0, 0>>, port |-> 0, upper |-> TRUE]

\* Address fields that are not of the form 8 hex digits, ':', 4 hex digits.
MalformedAddrs == {
    << >>,                                                   \* empty field
    <<"0", "1", "0", "0", "0", "0", "7", "F">>,              \* no ':'
    <<"0", "1", "0", "0", "0", "0", "7", "F", ":", "0", "0", "1", "6", ":", "0">>,
    <<":">>,
    <<":", "0", "0", "1", "6">>,                             \* empty IP part
    <<"0", "1", "0", "0", "0", "0", "7", "F", ":">>,         \* empty port part
    <<"0", "1", "0", "0", "0", "0", "7", "G", ":", "0", "0", "1", "6">>,
    <<"0", "1", "0", "0", "0", "0", "7", "F", ":", "0", "0", "1", "G">>,
    <<"0", "1", "0", "0", "0", "0", "7", ":", "0", "0", "1", "6">>,   \* odd length
    <<"0", "1", "0", "0", "0", "0", ":", "0", "0", "1", "6">>,        \* 3 bytes
    <<"0", "1", "0", "0", "0", "0", "7", "F", "0", "0", ":", "0", "0", "1", "6">>,
    [i \in 1..32 |-> "0"] \o <<":", "0", "0", "1", "6">>,             \* IPv6 form
    <<"l", "o", "c", "a", "l", "_", "a", "d", "d", "r", "e", "s", "s">>,
    <<"0", "1", "0", "0", "0", "0", "7", "F", ":", "0", "x", "1", "6">>,
    <<"0", "1", "0", "0", "0", "0", "7", "F", ":", "-", "0", "1", "6">>,  \* signed port
    <<"0", "1", "0", "0", "0", "0", "7", "F", ":", "+", "0", "1", "6">>,
    <<"0", "1", "0", "0", "0", "0", "7", "F", ":", "F", "F", "F", "F", "F">>,
    <<"0", "1", "0", "0", "0", "0", "7", "F", ":">> \o [i \in 1..17 |-> "F"]
}

StateCodeSamples == {
    <<"0", "1">>, <<"0", "2">>, <<"0", "3">>, <<"0", "4">>, <<"0", "5">>,
    <<"0", "6">>, <<"0", "7">>, <<"0", "8">>, <<"0", "9">>, <<"0", "A">>,
    <<"0", "B">>,
    << >>, <<"0">>, <<"0", "0">>, <<"0", "C">>, <<"0", "a">>, <<"0", "b">>,
    <<"A">>, <<"1">>, <<"1", "0">>, <<"F", "F">>, <<"0", "0", "A">>,
    <<"0", "A", " ">>, <<"s", "t">>
}

NoParse == [err |-> "none", ip |-> << >>, port |-> << >>]

-----------------------------------------------------------------------------
(* The environments and the calls the resolver is run on.                  *)

\* What the host can answer: each configuration, with net.Interfaces()
\* working or failing, and the ip command nowhere, or at the first or the
\* fourth candidate path with its addr and route subcommands working or not.
IpModes == {
    [ipAt |-> 0, addrOK |-> FALSE, routeOK |-> FALSE],
    [ipAt |-> 1, addrOK |-> TRUE, routeOK |-> TRUE],
    [ipAt |-> 4, addrOK |-> TRUE, routeOK |-> TRUE],
    [ipAt |-> 1, addrOK |-> FALSE, routeOK |-> TRUE],
    [ipAt |-> 4, addrOK |-> TRUE, routeOK |-> FALSE]
}

Envs ==
    { [cfg |-> c, ifErr |-> e, ipAt |-> i.ipAt, addrOK |-> i.addrOK,
       routeOK |-> i.routeOK] :
          c \in 1..Len(NetConfigs), e \in {"nil", "netlink", "other"}, i \in IpModes }

QuietEnv == [cfg |-> 1, ifErr |-> "nil", ipAt |-> 1, addrOK |-> TRUE, routeOK |-> TRUE]

\* Endpoint addresses of the connections resolved: loopback, another address
\* of the loopback net, the wildcard, bound addresses, an unbound address of
\* a local subnet, a bridge address, a hardcoded fallback key, a remote host.
SourceIPs == {
    IP_LOOPBACK, IPString(<<127, 0, 0, 53>>), IP_ANY,
    IPString(<<10, 0, 0, 5>>), IPString(<<10, 0, 0, 6>>), IPString(<<10, 0, 0, 77>>),
    IPString(<<172, 17, 0, 1>>), IPString(<<192, 168, 1, 10>>),
    FALLBACK_PRIMARY_IP
}
DestIPs == {
    IP_LOOPBACK, IPString(<<127, 0, 0, 53>>), IP_ANY,
    IPString(<<10, 0, 0, 9>>), IPString(<<8, 8, 8, 8>>)
}

NoCall == [src |-> << >>, dst |-> << >>, iface |-> << >>, steps |-> << >>,
           before |-> NilCache]

\* The collection passes that run at a time: one per scrape request that
\* the HTTP server is serving.
Passes == {"first", "second"}

NoBuild == [err |-> FALSE, m |-> EmptyMap]
IdlePass == [at |-> "idle", ip |-> << >>, local |-> NoBuild, iface |-> << >>]
NoPasses == [p \in Passes |-> IdlePass]

\* No call with a source of 0.0.0.0 was answered since the host last changed.
NoPrev == [valid |-> FALSE, dst |-> << >>, iface |-> << >>, built |-> FALSE]

ResolverIdle ==
    /\ host = QuietEnv
    /\ interfaceCache = NilCache
    /\ call = NoCall
    /\ prevAny = NoPrev
    /\ pass = NoPasses

resolverVars == <<host, interfaceCache, call, prevAny, pass>>

-----------------------------------------------------------------------------
(* The tables the readers are run on.                                      *)

\* One line of /proc/net/tcp or /proc/net/udp: the slot, the local and the
\* remote address, the state, and six more columns (ten fields).
LINE_TAIL ==
    <<" ", "0", ":", "0", " ", "0", "0", ":", "0", " ", "0", " ", "0", " ",
      "0", " ", "9">>
TableLine(local, remote, st) ==
    <<" ", " ", "0", ":", " ">> \o local \o <<" ">> \o remote \o <<" ">> \o st
        \o LINE_TAIL

\* A line cut short after its ninth field.
SHORT_TAIL ==
    <<" ", "0", ":", "0", " ", "0", "0", ":", "0", " ", "0", " ", "0", " ",
      "0">>
ShortLine(local, remote, st) ==
    <<" ", " ", "0", ":", " ">> \o local \o <<" ">> \o remote \o <<" ">> \o st
        \o SHORT_TAIL

TABLE_HEADER ==
    <<" ", "s", "l", " ", "l", "o", "c", "a", "l", "_", "a", "d", "d", "r",
      "e", "s", "s", " ", "r", "e", "m", "_", "a", "d", "d", "r", "e", "s",
      "s", " ", "s", "t", " ", "t", "x", "_", "q", "u", "e", "u", "e", " ",
      "r", "x", "_", "q", "u", "e", "u", "e", " ", "t", "r", " ", "t", "m",
      "-", ">", "w", "h", "e", "n", " ", "r", "e", "t", "r", "n", "s", "m",
      "t", " ", "u", "i", "d">>
K(a, b, c, d, port) == KernelAddr(<<d, c, b, a>>, port, HexUpper)

ST_ESTABLISHED == <<"0", "1">>
ST_CLOSE == <<"0", "7">>
ST_LISTEN == <<"0", "A">>
ST_NEW_SYN_RECV == <<"0", "C">>


ROW_LISTEN == TableLine(K(0, 0, 0, 0, 22), K(0, 0, 0, 0, 0), ST_LISTEN)
ROW_SERVED == TableLine(K(10, 0, 0, 5, 22), K(10, 0, 0, 9, 50000),
                        ST_ESTABLISHED)
ROW_DIALED == TableLine(K(10, 0, 0, 5, 50000), K(8, 8, 8, 8, 443),
                        ST_ESTABLISHED)
ROW_CLOSING == TableLine(K(10, 0, 0, 5, 22), K(10, 0, 0, 9, 50001), ST_CLOSE)
ROW_UNMAPPED == TableLine(K(10, 0, 0, 6, 8080), K(8, 8, 8, 8, 443),
                          ST_NEW_SYN_RECV)
ROW_UNBOUND == TableLine(K(0, 0, 0, 0, 0), K(0, 0, 0, 0, 0), ST_CLOSE)
ROW_IPV6 == TableLine([i \in 1..32 |-> "0"] \o <<":", "0", "0", "1", "6">>,
                      K(0, 0, 0, 0, 0), ST_LISTEN)
ROW_BAD_REMOTE == TableLine(K(10, 0, 0, 5, 50000),
                            <<"0", "8", "0", "8", "0", "8", "0", "G", ":",
                              "0", "1", "B", "B">>, ST_ESTABLISHED)
ROW_SIGNED == TableLine(K(10, 0, 0, 5, 50000),
                        <<"0", "1", "0", "0", "0", "0", "7", "F", ":",
                          "-", "0", "1", "6">>, ST_ESTABLISHED)
ROW_SHORT == ShortLine(K(10, 0, 0, 5, 22), K(10, 0, 0, 9, 50000),
                       ST_ESTABLISHED)

ClosedTable == [open |-> FALSE, lines |-> << >>, scanErr |-> FALSE]
OpenTable(lines, scanErr) == [open |-> TRUE, lines |-> lines, scanErr |-> scanErr]
\* No table has been read.
Unread == [open |-> FALSE, lines |-> << >>, scanErr |-> TRUE]

NoRun == [err |-> TRUE, lines |-> <<<<"-">>>>]
NoRet == [proto |-> "none", err |-> "none", conns |-> << >>]

ReaderIdle ==
    /\ tcpTable = Unread
    /\ udpTable = Unread
    /\ ssOut = NoRun
    /\ listenPorts = NilPorts
    /\ ret = NoRet
    /\ emitted = << >>

readerVars == <<tcpTable, udpTable, ssOut, listenPorts, ret, emitted>>

-----------------------------------------------------------------------------
(* SpecCodec: parseAddress and connectionState applied to one input.       *)

CodecInit ==
    /\ ResolverIdle
    /\ ReaderIdle
    /\ parsed = NoParse
    /\ stateName = "none"
    /\ \/ /\ pc = "parse"
          /\ code = << >>
          /\ \/ \E w \in ByteSamples \X ByteSamples \X ByteSamples \X ByteSamples,
                   p \in PortSamples, up \in BOOLEAN :
                    /\ origin = [valid |-> TRUE, word |-> w, port |-> p, upper |-> up]
                    /\ addr = KernelAddr(w, p, IF up THEN HexUpper ELSE HexLower)
             \/ /\ origin = NoOrigin
                /\ addr \in MalformedAddrs
       \/ /\ pc = "map"
          /\ addr = << >>
          /\ origin = NoOrigin
          /\ code \in StateCodeSamples

\* One call of parseAddress.
ParseStep ==
    /\ pc = "parse"
    /\ parsed' = parseAddress(addr)
    /\ pc' = "parsed"
    /\ UNCHANGED <<addr, origin, code, stateName, resolverVars, readerVars>>

\* One call of connectionState.
MapStep ==
    /\ pc = "map"
    /\ stateName' = connectionState(code)
    /\ pc' = "mapped"
    /\ UNCHANGED <<addr, origin, parsed, code, resolverVars, readerVars>>

vars == <<pc, codecVars, resolverVars, readerVars>>

CodecNext == ParseStep \/ MapStep

SpecCodec == CodecInit /\ [][CodecNext]_vars

-----------------------------------------------------------------------------
(* Address Codec: claims.                                                  *)

ADDR_7F_22 == <<"0", "1", "0", "0", "0", "0", "7", "F", ":", "0", "0", "1", "6">>
ADDR_ANY_0 == <<"0", "0", "0", "0", "0", "0", "0", "0", ":", "0", "0", "0", "0">>

\* C1: for every address field made of an 8-hex-digit IP part and a
\* 4-hex-digit port part, parseAddress succeeds, the address it returns is the
\* dotted-decimal form of the four printed bytes in reversed order, and the
\* port it returns is the decimal rendering of the port value; 0100007F:0016
\* gives 127.0.0.1 and 22, 00000000:0000 gives 0.0.0.0 and 0.
C1_ParseAddressDecodes ==
    (pc = "parsed" /\ origin.valid) =>
        /\ parsed.err = "nil"
        /\ ParseIP(parsed.ip) =
               [ok |-> TRUE,
                bytes |-> <<origin.word[4], origin.word[3],
                            origin.word[2], origin.word[1]>>]
        /\ IsDecimal(parsed.port)
        /\ (Len(parsed.port) > 1 => parsed.port[1] # "0")
        /\ DecNumber(parsed.port) = origin.port
        /\ (addr = ADDR_7F_22 => parsed.ip = IP_LOOPBACK /\ parsed.port = <<"2", "2">>)
        /\ (addr = ADDR_ANY_0 => parsed.ip = IP_ANY /\ parsed.port = <<"0">>)

C1_Witness ==
    /\ pc = "parsed"
    /\ origin.valid
    /\ addr = ADDR_7F_22
    /\ parsed = [err |-> "nil", ip |-> IP_LOOPBACK, port |-> <<"2", "2">>]

\* The hex digits of a string in upper case.
UpperHex(s) ==
    [i \in 1..Len(s) |->
        CASE s[i] = "a" -> "A" [] s[i] = "b" -> "B" [] s[i] = "c" -> "C"
          [] s[i] = "d" -> "D" [] s[i] = "e" -> "E" [] s[i] = "f" -> "F"
          [] OTHER -> s[i]]

\* The octets of a decoded address, in reversed order, as the kernel prints them.
ReEncode(ip) ==
    LET o == ParseIP(ip).bytes
    IN EncodeByte(o[4], HexUpper) \o EncodeByte(o[3], HexUpper)
           \o EncodeByte(o[2], HexUpper) \o EncodeByte(o[1], HexUpper)

\* C2: for every well-formed address field, decoding it and re-encoding the
\* octets of the decoded address in reversed order as hex yields the hex IP
\* part of the field: literally for the kernel's upper-case form, and up to
\* the letter case of the digits (which decoding does not keep) otherwise.
C2_RoundTrip ==
    (pc = "parsed" /\ origin.valid) =>
        /\ parsed.err = "nil"
        /\ ParseIP(parsed.ip).ok
        /\ ReEncode(parsed.ip) = UpperHex(SubSeq(addr, 1, 8))
        /\ (origin.upper => ReEncode(parsed.ip) = SubSeq(addr, 1, 8))

C2_Witness ==
    /\ pc = "parsed"
    /\ origin.valid
    /\ origin.upper
    /\ SubSeq(addr, 1, 8) = <<"0", "1", "0", "A", "0", "0", "C", "0">>
    /\ parsed.ip = <<"1", "9", "2", ".", "0", ".", "1", "0", ".", "1">>
    /\ ReEncode(parsed.ip) = SubSeq(addr, 1, 8)

HexDigitChars == {HexUpper[i] : i \in 1..16} \cup {HexLower[i] : i \in 1..16}
AllHex(s) == \A i \in 1..Len(s) : s[i] \in HexDigitChars

\* An address field that is not two ':'-separated parts, or has a character
\* that is no hex digit, or whose IP part is not the 8 digits of 4 bytes.
MalformedField(a) ==
    LET parts == Split(a, ":")
    IN \/ Len(parts) # 2
       \/ ~AllHex(parts[1])
       \/ ~AllHex(parts[2])
       \/ Len(parts[1]) # 2 * IPv4Len

\* C4: an address field that is malformed (not exactly two ':'-separated
\* parts, non-hex digits, or an IP part that is not 4 bytes) makes
\* parseAddress fail with an error.
C4_MalformedFails ==
    (pc = "parsed" /\ MalformedField(addr)) => parsed.err # "nil"

\* C19: the port of every address field that parseAddress decodes without
\* error, which is the sourcePort or destinationPort of the record of the
\* row, is a decimal string denoting an integer from 0 to 65535.
C19_PortInRange ==
    (pc = "parsed" /\ parsed.err = "nil")
        => /\ IsDecimal(parsed.port)
           /\ DecNumber(parsed.port) <= 65535

-----------------------------------------------------------------------------
(* SpecResolve: connections resolved one after the other on a host whose   *)
(* configuration changes.                                                  *)

CodecIdle ==
    /\ addr = << >>
    /\ origin = NoOrigin
    /\ parsed = NoParse
    /\ code = << >>
    /\ stateName = "none"

ResolveInit ==
    /\ pc = "resolver"
    /\ CodecIdle
    /\ ReaderIdle
    /\ host \in Envs
    /\ interfaceCache = NilCache
    /\ call = NoCall
    /\ prevAny = NoPrev
    /\ pass = NoPasses

\* One call of getInterfaceForConnection.
Resolve ==
    /\ pc = "resolver"
    /\ \E s \in SourceIPs, d \in DestIPs :
           \E r \in {getInterfaceForConnection(s, d, interfaceCache, host)} :
              /\ interfaceCache' = r.cache
              /\ call' = [src |-> s, dst |-> d, iface |-> r.iface,
                          steps |-> r.steps, before |-> interfaceCache]
    /\ pc' = "resolved"
    /\ UNCHANGED <<host, prevAny, pass, codecVars, readerVars>>

\* The caller has taken the result.
Return ==
    /\ pc = "resolved"
    /\ pc' = "resolver"
    /\ call' = NoCall
    /\ prevAny' = IF call.src = IP_ANY
                  THEN [valid |-> TRUE, dst |-> call.dst, iface |-> call.iface,
                        built |-> interfaceCache.built]
                  ELSE prevAny
    /\ UNCHANGED <<host, interfaceCache, pass, codecVars, readerVars>>

\* Between two calls the host's configuration, or what its commands answer,
\* changes.
Reconfigure ==
    /\ pc = "resolver"
    /\ host' \in Envs \ {host}
    /\ prevAny' = NoPrev
    /\ UNCHANGED <<pc, interfaceCache, call, pass, codecVars, readerVars>>

ResolveNext == Resolve \/ Return \/ Reconfigure

SpecResolve == ResolveInit /\ [][ResolveNext]_vars

-----------------------------------------------------------------------------
(* Interface Resolver: claims on the loopback short-circuit.               *)

\* C9: a source IP of 127.0.0.1 resolves to lo whatever the cache holds,
\* with no cache build and no other system query, and leaves the cache as
\* it was.
C9_LoopbackSource ==
    (pc = "resolved" /\ call.src = IP_LOOPBACK)
        => /\ call.iface = LO
           /\ call.steps = << >>
           /\ interfaceCache = call.before

\* The cache the call started from was built and holds addresses.
C9_Witness ==
    /\ pc = "resolved"
    /\ call.src = IP_LOOPBACK
    /\ call.iface = LO
    /\ call.before.built
    /\ call.before.m # EmptyMap

\* The first byte of a dotted-quad text is 127: the address is in 127.0.0.0/8.
IsLoopbackText(ip) == ParseIP(ip).ok /\ IsLoopback(ParseIP(ip).bytes)

\* C10: when the source or the destination of a connection is a loopback
\* address the interface is lo, with no cache lookup or build, subnet match,
\* routing query or primary-interface selection.
C10_EitherLoopback ==
    (pc = "resolved" /\ (IsLoopbackText(call.src) \/ IsLoopbackText(call.dst)))
        => /\ call.iface = LO
           /\ call.steps = << >>
           /\ interfaceCache = call.before

-----------------------------------------------------------------------------
(* Interface Resolver: claims on the wildcard source address.              *)

\* C11: a connection whose source address is 0.0.0.0, neither endpoint
\* being 127.0.0.1, is labelled with the interface getPrimaryInterface
\* returns for the current configuration, whatever its destination.
C11_WildcardIsPrimary ==
    (pc = "resolved" /\ call.src = IP_ANY /\ call.dst # IP_LOOPBACK)
        => call.iface = getPrimaryInterface(host)

\* The positions, in enumeration order, of the interfaces that are up, not
\* loopback, bear one of the name prefixes (any name when there is none) and
\* have an IPv4 address.
Eligible(ifs, prefixes) ==
    {k \in 1..Len(ifs) :
        /\ ifs[k].up
        /\ ~ifs[k].loopback
        /\ \E a \in 1..Len(ifs[k].addrs) : ifs[k].addrs[a].v4
        /\ (prefixes = {} \/ \E p \in prefixes : SubSeq(ifs[k].name, 1, Len(p)) = p)}

FirstOf(ifs, S) == ifs[CHOOSE k \in S : \A j \in S : k <= j].name

ExpectedPrimary(ifs) ==
    IF Eligible(ifs, {<<"b", "o", "n", "d">>}) # {}
    THEN FirstOf(ifs, Eligible(ifs, {<<"b", "o", "n", "d">>}))
    ELSE IF Eligible(ifs, {<<"e", "t", "h">>, <<"e", "n">>}) # {}
    THEN FirstOf(ifs, Eligible(ifs, {<<"e", "t", "h">>, <<"e", "n">>}))
    ELSE IF Eligible(ifs, {}) # {}
    THEN FirstOf(ifs, Eligible(ifs, {}))
    ELSE UNKNOWN_IF

\* A listener on all addresses: the call that is answered by
\* getPrimaryInterface alone, lines 1069-1073.
WildcardListener ==
    pc = "resolved" /\ call.src = IP_ANY /\ call.dst = IP_ANY

\* C12: the primary interface is chosen among the interfaces that are up
\* and not loopback: the first bond* interface with an IPv4 address, else
\* the first eth* or en* interface with an IPv4 address, else the first
\* interface with an IPv4 address, else "unknown"; a lower priority is
\* returned only when no higher one has a candidate, whatever the
\* enumeration order.
C12_PrimaryByPriority ==
    (WildcardListener /\ host.ifErr = "nil")
        => call.iface = ExpectedPrimary(Ifaces(host))

\* The interface chosen is enumerated after a candidate of a lower priority.
C12_Witness ==
    /\ WildcardListener
    /\ host.ifErr = "nil"
    /\ \E k \in Eligible(Ifaces(host), {}) :
           /\ Ifaces(host)[k].name # call.iface
           /\ \A j \in 1..k : Ifaces(host)[j].name # call.iface
    /\ call.iface # UNKNOWN_IF

\* C13: two consecutive resolutions of a source of 0.0.0.0 return the same
\* interface when the host's interface configuration did not change between
\* them, whatever the calls in between did to the interface cache.
C13_WildcardStable ==
    (/\ pc = "resolved"
     /\ call.src = IP_ANY
     /\ prevAny.valid
     /\ prevAny.dst = call.dst)
        => call.iface = prevAny.iface

\* Between the two resolutions the cache was built: the first left it
\* unbuilt, the second starts from a built one.
C13_Witness ==
    /\ pc = "resolved"
    /\ call.src = IP_ANY
    /\ call.dst = IP_ANY
    /\ prevAny.valid
    /\ prevAny.dst = IP_ANY
    /\ ~prevAny.built
    /\ call.before.built
    /\ call.iface = prevAny.iface
    /\ call.iface # UNKNOWN_IF

-----------------------------------------------------------------------------
(* Interface Resolver: claims on the cache a build leaves.                 *)

HasStep(name) == \E i \in 1..Len(call.steps) : call.steps[i].step = name

\* The call built the cache, at line 1122 or 1149, and the build succeeded:
\* the cache is the one built from the host as it is.
BuildDone ==
    /\ pc = "resolved"
    /\ HasStep("net.Interfaces")
    /\ interfaceCache.built

\* The build ended in getNetworkInterfacesFallback.
LastResort == HasStep("ip route show default")

\* The interface is kept by lines 734-743.
Retained(i) == i.up /\ ~i.loopback /\ ~SkippedByName(i.name)

\* The IPv4 addresses bound to the interface, neither loopback nor
\* unspecified, as texts.
BoundIPv4(i) ==
    {IPString(i.addrs[a].ip) : a \in {b \in 1..Len(i.addrs) :
        /\ i.addrs[b].v4
        /\ ~IsLoopback(i.addrs[b].ip)
        /\ ~IsUnspecified(i.addrs[b].ip)}}

MapsTo(ip, name) == ip \in DOMAIN interfaceCache.m /\ interfaceCache.m[ip] = name

\* C14: after any cache build every key maps to one interface name, and a
\* retained interface with two distinct bound IPv4 addresses has two cache
\* entries, one per address, both with the interface's name.
C14_TwoEntriesAnyBuild ==
    BuildDone =>
        /\ \A ip \in DOMAIN interfaceCache.m : interfaceCache.m[ip] # << >>
        /\ \A k \in 1..Len(Ifaces(host)) :
               (Retained(Ifaces(host)[k]) /\ Cardinality(BoundIPv4(Ifaces(host)[k])) >= 2)
                   => \A ip \in BoundIPv4(Ifaces(host)[k]) :
                          MapsTo(ip, Ifaces(host)[k].name)

\* C14, amended: after a build that reads the interfaces (net.Interfaces,
\* or `ip -4 addr show` after a netlink error) every key maps to the name of
\* one interface that bears it, and each bound IPv4 address of a retained
\* interface that no interface enumerated later bears has its own entry
\* with that interface's name.
C14_TwoEntries ==
    (BuildDone /\ ~LastResort) =>
        /\ \A ip \in DOMAIN interfaceCache.m :
               \E k \in 1..Len(Ifaces(host)) :
                   /\ interfaceCache.m[ip] = Ifaces(host)[k].name
                   /\ ip \in BoundIPv4(Ifaces(host)[k])
        /\ \A k \in 1..Len(Ifaces(host)) :
               Retained(Ifaces(host)[k])
                   => \A ip \in BoundIPv4(Ifaces(host)[k]) :
                          (\A j \in (k + 1)..Len(Ifaces(host)) :
                               ip \notin BoundIPv4(Ifaces(host)[j]))
                              => MapsTo(ip, Ifaces(host)[k].name)

\* The build parsed `ip -4 addr show` and left two entries for eth0.
C14_Witness ==
    /\ BuildDone
    /\ ~LastResort
    /\ HasStep("ip -4 addr show")
    /\ \E k \in 1..Len(Ifaces(host)) :
           /\ Retained(Ifaces(host)[k])
           /\ Cardinality(BoundIPv4(Ifaces(host)[k])) = 2
           /\ \A ip \in BoundIPv4(Ifaces(host)[k]) : MapsTo(ip, Ifaces(host)[k].name)

\* How often the call made the system query of that name.
Attempts(name) == Cardinality({i \in 1..Len(call.steps) : call.steps[i].step = name})

\* C15: within the resolution of one connection each fallback step (the
\* interface enumeration that builds or rebuilds the cache, the subnet
\* match, the routing query, the primary-interface selection) is attempted
\* at most once, from every cache state, the unbuilt one included.
C15_EachFallbackOnce ==
    (pc = "resolved")
        => /\ Attempts("net.Interfaces") <= 1
           /\ Attempts("getInterfaceBySubnet") <= 1
           /\ Attempts("ip route get") <= 1
           /\ Attempts("getPrimaryInterface") <= 1

-----------------------------------------------------------------------------
(* Interface Resolver: claims on the order of the fallbacks of a build.    *)

\* The number of candidate paths a run of the command tries on the host: up
\* to the first at which the command runs, or all of them.
PathsNeeded(cmdOK) ==
    IF host.ipAt # 0 /\ cmdOK THEN host.ipAt ELSE NumIpPaths

\* C23: a cache build follows a strict fallback order.  `ip -4 addr show` is
\* run only right after net.Interfaces failed with a netlink / address
\* family error; its candidate paths are tried in order up to the first
\* that runs; the hardcoded mapping is used only after every candidate path
\* failed; and a build that entered the ip command returns a mapping.
C23_FallbackOrder ==
    pc = "resolved" =>
        /\ \A i \in 1..Len(call.steps) :
               /\ call.steps[i].step = "ip -4 addr show"
                      => /\ i > 1
                         /\ call.steps[i - 1].step = "net.Interfaces"
                         /\ host.ifErr = "netlink"
                         /\ call.steps[i].tried = PathsNeeded(host.addrOK)
               /\ call.steps[i].step = "ip route show default"
                      => /\ i > 1
                         /\ call.steps[i - 1].step = "ip -4 addr show"
                         /\ call.steps[i - 1].tried = NumIpPaths
                         /\ host.ipAt = 0 \/ ~host.addrOK
        /\ HasStep("ip -4 addr show") => interfaceCache.built

\* A build that went down to the hardcoded mapping, and one that stopped at
\* the fourth candidate path of the ip command.
C23_Witness ==
    /\ pc = "resolved"
    /\ host.ifErr = "netlink"
    /\ interfaceCache.built
    /\ \/ /\ LastResort
          /\ MapsTo(FALLBACK_VIRBR1_IP, VIRBR1)
          /\ host.ipAt = 1
       \/ /\ ~LastResort
          /\ \E i \in 1..Len(call.steps) :
                 /\ call.steps[i].step = "ip -4 addr show"
                 /\ call.steps[i].tried = 4

-----------------------------------------------------------------------------
(* Interface Resolver: claims on the order of the resolution steps.        *)

\* The positions of the steps of that name in the call.
StepsAt(name) == {i \in 1..Len(call.steps) : call.steps[i].step = name}

\* Every step of the first name comes before every step of the second.
Precedes(first, second) ==
    \A i \in StepsAt(first), j \in StepsAt(second) : i < j

\* A connection whose source is neither 0.0.0.0 nor 127.0.0.1 and whose
\* destination is not 127.0.0.1.
PlainSource ==
    /\ pc = "resolved"
    /\ call.src \notin {IP_ANY, IP_LOOPBACK}
    /\ call.dst # IP_LOOPBACK

\* C24: for every connection with a non-special source IP the resolution
\* tries, in this order, the cache, the rebuilt cache, the subnet match, the
\* routing query (only for a non-local destination) and the primary
\* interface; the label is "unknown" only if the primary interface was
\* computed and is itself "unknown".
C24_PrimaryIsLastResort ==
    PlainSource =>
        /\ Precedes("net.Interfaces", "getInterfaceBySubnet")
        /\ Precedes("getInterfaceBySubnet", "ip route get")
        /\ Precedes("ip route get", "getPrimaryInterface")
        /\ Precedes("net.Interfaces", "getPrimaryInterface")
        /\ HasStep("ip route get") => ~isLocalIP(call.dst)
        /\ HasStep("getPrimaryInterface")
               => call.iface = getPrimaryInterface(host)
        /\ call.iface = UNKNOWN_IF
               => /\ HasStep("getPrimaryInterface")
                  /\ getPrimaryInterface(host) = UNKNOWN_IF

-----------------------------------------------------------------------------
(* Interface Resolver: claims on the life of the cache.                    *)

\* What an enumeration of the host as it is leaves in the cache: its
\* IP-to-name pairs, or, when it fails, nothing.
FreshCache ==
    IF getNetworkInterfaces(host).err THEN NilCache
    ELSE MapOf(getNetworkInterfaces(host).m)

\* The call looked its source address up in a built cache and found it.
CacheHit == call.before.built /\ Has(call.before.m, call.src)

\* A call that needs no lookup, or whose lookup hits, leaves the cache as it
\* was; a call whose lookup misses leaves the fresh enumeration.
C25_CacheAfterCall ==
    pc = "resolved" =>
        IF PlainSource /\ ~CacheHit
        THEN interfaceCache = FreshCache
        ELSE interfaceCache = call.before

\* C25: the cache is unbuilt until the first resolution that needs it, and
\* whenever the lookup of a non-special IP misses the cache is replaced as a
\* whole by a fresh enumeration: it holds that enumeration's pairs and no
\* entry of the previous build that the fresh enumeration lacks.
C25_LazyWholeRebuild ==
    /\ ~interfaceCache.built
    /\ []C25_CacheAfterCall
    /\ [][pc' # "resolved" => interfaceCache' = interfaceCache]_vars

\* A rebuild after the host changed dropped an address of the previous
\* build and took up one that build had not.
C25_Witness ==
    /\ PlainSource
    /\ call.before.built
    /\ ~CacheHit
    /\ interfaceCache.built
    /\ \E old \in DOMAIN call.before.m : ~Has(interfaceCache.m, old)
    /\ \E new \in DOMAIN interfaceCache.m : ~Has(call.before.m, new)

-----------------------------------------------------------------------------
(* Interface Resolver: claims on the interfaces the fallbacks may name.    *)

\* The interface is one the enumeration of lines 732-743 leaves out for
\* being down or for its name.
Excluded(i) == ~i.up \/ SkippedByName(i.name)

\* C30: no connection is labelled with an interface that the primary cache
\* build excludes (one that is down, or a docker, veth or br- interface):
\* the subnet match, the routing query and the primary-interface selection
\* never return a name that the build would have filtered out.
C30_NoExcludedInterface ==
    pc = "resolved"
        => \A k \in 1..Len(Ifaces(host)) :
               Excluded(Ifaces(host)[k]) => call.iface # Ifaces(host)[k].name

-----------------------------------------------------------------------------
(* SpecReader: the two readers called on tables of a few lines.            *)

MaxBody == 2

SeqsUpTo(S, n) == UNION {[1..k -> S] : k \in 0..n}

\* A table starts with its header, or, the header gone, with a data line.
FirstLines == {TABLE_HEADER, ROW_LISTEN}
BodyLines == {ROW_LISTEN, ROW_SERVED, ROW_UNMAPPED, ROW_UNBOUND,
              ROW_IPV6, ROW_BAD_REMOTE, ROW_SIGNED, ROW_SHORT}

\* Tables of one connection in each of the sampled states.
StateTables ==
    {OpenTable(<<TABLE_HEADER,
                 TableLine(K(10, 0, 0, 5, 22), K(10, 0, 0, 9, 50000), c)>>,
               FALSE) : c \in StateCodeSamples}

ReaderTables ==
    {ClosedTable}
        \cup {OpenTable(<<h>> \o b, e) :
                  h \in FirstLines, b \in SeqsUpTo(BodyLines, MaxBody), e \in BOOLEAN}
        \cup {OpenTable(<< >>, e) : e \in BOOLEAN}
        \cup StateTables

PORT_22 == FormatInt10(22)
ReaderPortSets == {NilPorts, PortSet({PORT_22})}

\* A host whose interfaces and commands all answer, and one where nothing
\* does.
DeafEnv == [cfg |-> 4, ifErr |-> "other", ipAt |-> 0, addrOK |-> FALSE,
            routeOK |-> FALSE]
ReaderEnvs == {QuietEnv, DeafEnv}

ReaderInit ==
    /\ pc = "reader"
    /\ CodecIdle
    /\ ReaderIdle
    /\ host \in ReaderEnvs
    /\ interfaceCache = NilCache
    /\ call = NoCall
    /\ prevAny = NoPrev
    /\ pass = NoPasses

\* One call of getTCPConnections.  ss is run only once the table is open.
ReadTCP ==
    /\ pc = "reader"
    /\ \E f \in ReaderTables, o \in SsOutcomes, lp \in ReaderPortSets :
           \E r \in {getTCPConnections(f, o, lp, interfaceCache, host)} :
              /\ tcpTable' = f
              /\ ssOut' = IF f.open THEN o ELSE ssOut
              /\ listenPorts' = lp
              /\ ret' = [proto |-> "tcp", err |-> r.err, conns |-> r.conns]
              /\ interfaceCache' = r.cache
    /\ pc' = "read"
    /\ UNCHANGED <<udpTable, emitted, host, call, prevAny, pass, codecVars>>

\* One call of getUDPConnections.
ReadUDP ==
    /\ pc = "reader"
    /\ \E f \in ReaderTables :
           \E r \in {getUDPConnections(f, interfaceCache, host)} :
              /\ udpTable' = f
              /\ ret' = [proto |-> "udp", err |-> r.err, conns |-> r.conns]
              /\ interfaceCache' = r.cache
    /\ pc' = "read"
    /\ UNCHANGED <<tcpTable, ssOut, listenPorts, emitted, host, call, prevAny, pass, codecVars>>

\* The caller has taken the result.
Taken ==
    /\ pc = "read"
    /\ pc' = "reader"
    /\ tcpTable' = Unread
    /\ udpTable' = Unread
    /\ ssOut' = NoRun
    /\ listenPorts' = NilPorts
    /\ ret' = NoRet
    /\ UNCHANGED <<emitted, host, interfaceCache, call, prevAny, pass,
                 codecVars>>

ReaderNext == ReadTCP \/ ReadUDP \/ Taken

SpecReader == ReaderInit /\ [][ReaderNext]_vars

-----------------------------------------------------------------------------
(* Connection Table Reader: claims.                                        *)

\* A line with at least ten fields whose two address fields decode.
Decodes(line) ==
    LET f == Fields(line)
    IN /\ Len(f) >= 10
       /\ parseAddress(f[2]).err = "nil"
       /\ parseAddress(f[3]).err = "nil"

\* The lines of a table, the first excepted, that decode, in file order.
DecodableRows(table) ==
    IF table.lines = << >> THEN << >> ELSE SelectSeq(Tail(table.lines), Decodes)

\* The record and the line agree on the two decoded socket addresses.
RecordOf(conn, line) ==
    LET f == Fields(line)
    IN /\ conn.sourceAddress = parseAddress(f[2]).ip
       /\ conn.sourcePort = parseAddress(f[2]).port
       /\ conn.destinationAddress = parseAddress(f[3]).ip
       /\ conn.destinationPort = parseAddress(f[3]).port

\* The table the last call of a reader was given.
ReadTable == IF ret.proto = "tcp" THEN tcpTable ELSE udpTable

\* The state names of the codes 01..0B.
StateNameTable ==
    (<<"0", "1">> :> "ESTABLISHED") @@ (<<"0", "2">> :> "SYN_SENT")
        @@ (<<"0", "3">> :> "SYN_RECV") @@ (<<"0", "4">> :> "FIN_WAIT1")
        @@ (<<"0", "5">> :> "FIN_WAIT2") @@ (<<"0", "6">> :> "TIME_WAIT")
        @@ (<<"0", "7">> :> "CLOSE") @@ (<<"0", "8">> :> "CLOSE_WAIT")
        @@ (<<"0", "9">> :> "LAST_ACK") @@ (<<"0", "A">> :> "LISTEN")
        @@ (<<"0", "B">> :> "CLOSING")
ExpectedState(c) ==
    IF c \in DOMAIN StateNameTable THEN StateNameTable[c] ELSE "UNKNOWN"

\* C3: every decodable row of a TCP table becomes a record whose state is
\* the name of the row's state code for the codes 01..0B and UNKNOWN for
\* every other text; no state code makes the reader fail or drop the row.
C3_StateTotal ==
    (pc = "read" /\ ret.proto = "tcp" /\ tcpTable.open)
        => LET rows == DecodableRows(tcpTable)
           IN /\ ret.err = "nil"
              /\ Len(ret.conns) = Len(rows)
              /\ \A i \in 1..Len(rows) :
                     /\ RecordOf(ret.conns[i], rows[i])
                     /\ ret.conns[i].state = ExpectedState(Fields(rows[i])[4])

\* A row with an unmapped state code is returned as UNKNOWN next to a
\* mapped one.
C3_Witness ==
    /\ pc = "read"
    /\ ret.proto = "tcp"
    /\ \E i, j \in 1..Len(ret.conns) :
           /\ ret.conns[i].state = "UNKNOWN"
           /\ ret.conns[j].state = "LISTEN"
    /\ \E r \in {DecodableRows(tcpTable)[k] : k \in 1..Len(DecodableRows(tcpTable))} :
           Fields(r)[4] = ST_NEW_SYN_RECV

\* C5: for a table that can be opened a reader returns exactly one record
\* per line after the first that has at least 10 fields and whose two
\* address fields decode, in file order, whatever the interface, state and
\* process name of the rows.
C5_OneRecordPerRow ==
    (pc = "read" /\ ReadTable.open)
        => LET rows == DecodableRows(ReadTable)
           IN /\ Len(ret.conns) = Len(rows)
              /\ \A i \in 1..Len(rows) : RecordOf(ret.conns[i], rows[i])

\* The number the kernel printed as the local port of the line.
LocalPortNumber(line) == HexNumber(Split(Fields(line)[2], ":")[2])

\* C26: every UDP record has a synthesized state that depends only on its
\* decoded source port: LISTEN when the port is not 0, UNCONN when it is 0;
\* the state column of the table is never consulted, so a UDP record has no
\* other state.
C26_UdpStateByPort ==
    (pc = "read" /\ ret.proto = "udp")
        => /\ \A i \in 1..Len(ret.conns) :
                  /\ ret.conns[i].state \in {"LISTEN", "UNCONN"}
                  /\ ret.conns[i].state = "UNCONN"
                         <=> ret.conns[i].sourcePort = <<"0">>
           /\ ret.err = "nil"
                  => \A i \in 1..Len(ret.conns) :
                         ret.conns[i].state = "UNCONN"
                             <=> LocalPortNumber(DecodableRows(udpTable)[i]) = 0

\* A bound socket whose row has the state code 01 is LISTEN, and an unbound
\* one whose row has the state code 07 is UNCONN.
C26_Witness ==
    /\ pc = "read"
    /\ ret.proto = "udp"
    /\ Len(ret.conns) = 2
    /\ \E i, j \in 1..2 :
           /\ ret.conns[i].state = "LISTEN"
           /\ Fields(DecodableRows(udpTable)[i])[4] = ST_ESTABLISHED
           /\ ret.conns[j].state = "UNCONN"
           /\ Fields(DecodableRows(udpTable)[j])[4] = ST_CLOSE

-----------------------------------------------------------------------------
(* Spec: collection passes (Collect, lines 1336-1371).  A pass reads the   *)
(* TCP table twice and the UDP table once; each read finds the table as it *)
(* is at that moment.                                                      *)

MaxRows == 2
MaxUdpRows == 1

CollectTcpRows == {ROW_LISTEN, ROW_SERVED, ROW_DIALED, ROW_CLOSING}
CollectUdpRows == {ROW_LISTEN, ROW_UNBOUND}

CollectTcpTables ==
    {ClosedTable}
        \cup {OpenTable(<<TABLE_HEADER>> \o b, FALSE) :
                  b \in SeqsUpTo(CollectTcpRows, MaxRows)}
CollectUdpTables ==
    {ClosedTable}
        \cup {OpenTable(<<TABLE_HEADER>> \o b, e) :
                  b \in SeqsUpTo(CollectUdpRows, MaxUdpRows), e \in BOOLEAN}

\* The hosts of the passes: all answers; nothing answers.
CollectEnvs == {QuietEnv, DeafEnv}

TCP == "tcp"
UDP == "udp"
INCOMING == "incoming"
OUTGOING == "outgoing"
UNKNOWN_DIRECTION == "unknown"

\* Lines 1358 and 1368: the label values of one metric.
Metric(conn, protocol, direction, processName) ==
    [source_address |-> conn.sourceAddress,
     source_port |-> conn.sourcePort,
     destination_address |-> conn.destinationAddress,
     destination_port |-> conn.destinationPort,
     state |-> conn.state,
     interface |-> conn.sourceInterface,
     protocol |-> protocol,
     direction |-> direction,
     process_name |-> processName]

\* A variant whose harvest stops after the first record.
HarvestedPortsFirstRow(conns) ==
    {conns[i].sourcePort :
        i \in {j \in 1..Len(conns) : j = 1 /\ conns[j].state = LISTEN}}

\* Lines 1341-1345.
HarvestedPorts(conns) ==
    {conns[i].sourcePort : i \in {j \in 1..Len(conns) : conns[j].state = LISTEN}}

\* A variant that takes the listening ports from the rows being classified.
TCPMetricsByOwnRows(conns, ports) ==
    [i \in 1..Len(conns) |->
        Metric(conns[i], TCP,
               IF conns[i].sourcePort \in HarvestedPorts(conns)
               THEN INCOMING ELSE OUTGOING,
               conns[i].processName)]

\* Lines 1353-1359.
TCPMetrics(conns, ports) ==
    [i \in 1..Len(conns) |->
        Metric(conns[i], TCP,
               IF conns[i].sourcePort \in ports.set THEN INCOMING ELSE OUTGOING,
               conns[i].processName)]

\* A variant that gives a bound UDP socket a direction.
UDPMetricsBound(conns) ==
    [i \in 1..Len(conns) |->
        Metric(conns[i], UDP,
               IF conns[i].state = LISTEN THEN INCOMING ELSE UNKNOWN_DIRECTION,
               << >>)]

\* Lines 1367-1369.
UDPMetrics(conns) ==
    [i \in 1..Len(conns) |-> Metric(conns[i], UDP, UNKNOWN_DIRECTION, << >>)]

Init ==
    /\ pc = "idle"
    /\ CodecIdle
    /\ ReaderIdle
    /\ host \in CollectEnvs
    /\ interfaceCache = NilCache
    /\ call = NoCall
    /\ prevAny = NoPrev
    /\ pass = NoPasses

\* Lines 1338-1346: the first read of the TCP table, for the LISTEN ports.
Harvest ==
    /\ pc = "idle"
    /\ \E f \in CollectTcpTables, o \in SsOutcomes :
           \E r \in {getTCPConnections(f, o, NilPorts, interfaceCache, host)} :
              /\ tcpTable' = f
              /\ ssOut' = IF f.open THEN o ELSE ssOut
              /\ listenPorts' = PortSet(IF r.err = "nil"
                                        THEN HarvestedPorts(r.conns) ELSE {})
              /\ interfaceCache' = r.cache
    /\ pc' = "harvested"
    /\ UNCHANGED <<udpTable, ret, emitted, host, call, prevAny, pass, codecVars>>

\* Lines 1349-1360: the second read of the TCP table, and its metrics.
Classify ==
    /\ pc = "harvested"
    /\ \E f \in CollectTcpTables, o \in SsOutcomes :
           \E r \in {getTCPConnections(f, o, listenPorts, interfaceCache, host)} :
              /\ tcpTable' = f
              /\ ssOut' = IF f.open THEN o ELSE ssOut
              /\ emitted' = IF r.err = "nil"
                            THEN emitted \o TCPMetrics(r.conns, listenPorts)
                            ELSE emitted
              /\ interfaceCache' = r.cache
    /\ pc' = "classified"
    /\ UNCHANGED <<udpTable, listenPorts, ret, host, call, prevAny, pass,
                   codecVars>>

\* Lines 1363-1370: the read of the UDP table, and its metrics.
ScrapeUDP ==
    /\ pc = "classified"
    /\ \E f \in CollectUdpTables :
           \E r \in {getUDPConnections(f, interfaceCache, host)} :
              /\ udpTable' = f
              /\ emitted' = IF r.err = "nil"
                            THEN emitted \o UDPMetrics(r.conns)
                            ELSE emitted
              /\ interfaceCache' = r.cache
    /\ pc' = "collected"
    /\ UNCHANGED <<tcpTable, ssOut, listenPorts, ret, host, call, prevAny, pass,
                   codecVars>>

\* Collect returns; the metrics of the pass have been served.
Served ==
    /\ pc = "collected"
    /\ pc' = "idle"
    /\ tcpTable' = Unread
    /\ udpTable' = Unread
    /\ ssOut' = NoRun
    /\ listenPorts' = NilPorts
    /\ emitted' = << >>
    /\ UNCHANGED <<ret, host, interfaceCache, call, prevAny, pass,
                 codecVars>>

\* Between two passes the host's configuration changes.
HostChanges ==
    /\ pc = "idle"
    /\ host' \in CollectEnvs \ {host}
    /\ UNCHANGED <<pc, interfaceCache, call, prevAny, pass, codecVars, readerVars>>

Next == Harvest \/ Classify \/ ScrapeUDP \/ Served \/ HostChanges

Spec == Init /\ [][Next]_vars

-----------------------------------------------------------------------------
(* Collector: claims.                                                      *)

MetricsOf(protocol) == SelectSeq(emitted, LAMBDA m : m.protocol = protocol)

\* C6: a pass whose TCP table cannot be opened while its UDP table can
\* emits a metric for every decodable UDP row; one whose UDP table cannot be
\* opened while its TCP table can emits a metric for every decodable TCP
\* row; one that can open neither ends with no metric.
C6_OtherProtocolEmitted ==
    pc = "collected"
        => /\ (~tcpTable.open /\ udpTable.open)
                  => Len(MetricsOf("udp")) = Len(DecodableRows(udpTable))
           /\ (tcpTable.open /\ ~udpTable.open)
                  => Len(MetricsOf("tcp")) = Len(DecodableRows(tcpTable))
           /\ (~tcpTable.open /\ ~udpTable.open) => emitted = << >>

\* The source ports of the decodable LISTEN rows of a table.
ListenRowPorts(table) ==
    {parseAddress(Fields(DecodableRows(table)[k])[2]).port :
        k \in {j \in 1..Len(DecodableRows(table)) :
                  ExpectedState(Fields(DecodableRows(table)[j])[4]) = "LISTEN"}}

\* After the first read the set holds the source ports of the LISTEN rows
\* that read found (none when the table did not open).
C7_Harvested ==
    pc = "harvested"
        => listenPorts = [nil |-> FALSE,
                          set |-> IF tcpTable.open THEN ListenRowPorts(tcpTable)
                                  ELSE {}]

\* Every TCP metric is incoming when its source port is in the set, and
\* outgoing when it is not.
C7_Classified ==
    pc \in {"classified", "collected"}
        => \A i \in 1..Len(emitted) :
               emitted[i].protocol = "tcp"
                   => emitted[i].direction =
                          IF emitted[i].source_port \in listenPorts.set
                          THEN "incoming" ELSE "outgoing"

\* C7: within a pass a TCP metric has direction incoming if and only if its
\* source port is among the source ports of the LISTEN rows of the pass's
\* first TCP read, and outgoing otherwise; the set harvested by the first
\* read is the set the second read's rows are classified with.
C7_DirectionByHarvest ==
    /\ [](C7_Harvested /\ C7_Classified)
    /\ [][(pc \in {"harvested", "classified"}) => (listenPorts' = listenPorts)]_vars

\* An ESTABLISHED metric on a harvested port and one on another port.
C7_Witness ==
    /\ pc = "collected"
    /\ \E i, j \in 1..Len(emitted) :
           /\ emitted[i].protocol = "tcp"
           /\ emitted[i].state = "ESTABLISHED"
           /\ emitted[i].source_port \in listenPorts.set
           /\ emitted[i].direction = "incoming"
           /\ emitted[j].protocol = "tcp"
           /\ emitted[j].state = "ESTABLISHED"
           /\ emitted[j].source_port \notin listenPorts.set
           /\ emitted[j].direction = "outgoing"

\* C8: every metric of the UDP table has direction unknown, whatever its
\* source port and state and whether or not the port is a TCP listening
\* port.
C8_UdpDirectionUnknown ==
    \A i \in 1..Len(emitted) :
        emitted[i].protocol = "udp" => emitted[i].direction = "unknown"

\* A bound UDP socket on a port of the TCP listening set.
C8_Witness ==
    /\ pc = "collected"
    /\ \E i \in 1..Len(emitted) :
           /\ emitted[i].protocol = "udp"
           /\ emitted[i].state = "LISTEN"
           /\ emitted[i].source_port \in listenPorts.set
           /\ emitted[i].direction = "unknown"

\* After the first read nothing has been emitted and every LISTEN row of the
\* table that read found has its port in the set.
C21_FirstReadComplete ==
    pc = "harvested"
        => /\ emitted = << >>
           /\ ~listenPorts.nil
           /\ tcpTable.open => ListenRowPorts(tcpTable) \subseteq listenPorts.set

\* The second read starts from the finished first read, leaves the set as
\* it was and labels its records with that set.
C21_SecondAfterFirst ==
    (pc' = "classified" /\ pc # "classified")
        => /\ pc = "harvested"
           /\ listenPorts' = listenPorts
           /\ \A i \in 1..Len(emitted') :
                  /\ emitted'[i].protocol = "tcp"
                  /\ emitted'[i].direction = "incoming"
                         <=> emitted'[i].source_port \in listenPorts.set

\* The UDP read starts from the finished second read, leaves the set and
\* the TCP metrics as they were and adds UDP metrics only.
C21_UdpAfterSecond ==
    (pc' = "collected" /\ pc # "collected")
        => /\ pc = "classified"
           /\ listenPorts' = listenPorts
           /\ Len(emitted') >= Len(emitted)
           /\ SubSeq(emitted', 1, Len(emitted)) = emitted
           /\ \A i \in (Len(emitted) + 1)..Len(emitted') :
                  emitted'[i].protocol = "udp"

\* C21: in every pass the first TCP read is complete (all rows consumed,
\* the listening ports harvested) before the second begins; the second read
\* and the direction labels use the set of the first read, which is not
\* modified afterwards; the UDP read comes after the second TCP read.
C21_ReadsInOrder ==
    /\ []C21_FirstReadComplete
    /\ [][C21_SecondAfterFirst /\ C21_UdpAfterSecond]_vars

\* A finished pass whose set is not empty, with TCP metrics followed by a
\* UDP metric, where the second read found another table than the first.
C21_Witness ==
    /\ pc = "collected"
    /\ listenPorts.set # {}
    /\ tcpTable.open
    /\ ListenRowPorts(tcpTable) = {}
    /\ \E i, j \in 1..Len(emitted) :
           /\ i < j
           /\ emitted[i].protocol = "tcp"
           /\ emitted[i].direction = "incoming"
           /\ emitted[j].protocol = "udp"

\* ss runs inside getTCPConnections (lines 1390-1392), after the table has
\* been opened: ssOut is NoRun until a read of the pass has run it.
SsRanInFirstRead == pc = "harvested" /\ ssOut # NoRun
SsRunsInSecondRead == pc = "harvested" /\ pc' = "classified" /\ tcpTable'.open

\* C22: the port-to-process-name mapping is built (ss is run and parsed)
\* exactly once per collection pass: of the two TCP reads of a pass exactly
\* one runs the command.
C22_OneBuildPerPass ==
    [][(pc = "harvested" /\ pc' = "classified")
           => (SsRanInFirstRead <=> ~SsRunsInSecondRead)]_vars

\* What a process that has resolved nothing yet emits for the tables, the
\* command output and the host configuration of the pass.
FreshTcp == getTCPConnections(tcpTable, ssOut, listenPorts, NilCache, host)
FreshUdp == getUDPConnections(udpTable, FreshTcp.cache, host)
FreshEmitted ==
    (IF FreshTcp.err = "nil" THEN TCPMetrics(FreshTcp.conns, listenPorts)
     ELSE << >>)
        \o (IF FreshUdp.err = "nil" THEN UDPMetrics(FreshUdp.conns) ELSE << >>)

\* C27: collection passes are stateless across passes: the records a pass
\* emits are determined by the kernel tables, the interface configuration
\* and the command outputs at the time of the pass, never by an earlier
\* pass; a process with a history emits what a fresh process emits for the
\* same current system state.
C27_StatelessPasses ==
    pc = "collected" => emitted = FreshEmitted

\* C28: within one collection pass no two emitted metrics carry the same
\* full label tuple (source address and port, destination address and port,
\* state, interface, protocol, direction, process name), for every table
\* content, tables with repeated rows included.
C28_DistinctLabelTuples ==
    \A i, j \in 1..Len(emitted) : i # j => emitted[i] # emitted[j]

\* C29: every TCP metric in state LISTEN has direction incoming, also when
\* the kernel table changes, or becomes readable or unreadable, between the
\* first and the second TCP read of the pass.
C29_ListenIsIncoming ==
    \A i \in 1..Len(emitted) :
        (emitted[i].protocol = "tcp" /\ emitted[i].state = "LISTEN")
            => emitted[i].direction = "incoming"

-----------------------------------------------------------------------------
(* Process Attribution: claims on the process name of the records.         *)

Named(m) == m.process_name # << >>

\* C17: among the records of a pass, a TCP record has a process name only
\* if its state is LISTEN, or its state is ESTABLISHED and its source port
\* is in the listening-port set the pass harvested (direction incoming);
\* every other TCP record and every UDP record has the empty name.
C17_NamedOnlyIfListening ==
    \A i \in 1..Len(emitted) :
        Named(emitted[i])
            => /\ emitted[i].protocol = "tcp"
               /\ \/ emitted[i].state = "LISTEN"
                  \/ /\ emitted[i].state = "ESTABLISHED"
                     /\ emitted[i].source_port \in listenPorts.set
                     /\ emitted[i].direction = "incoming"

\* ss names the process of port 22: the ESTABLISHED record on that port
\* bears the name, the CLOSE record on the same port and the UDP record on
\* it do not.
C17_Witness ==
    /\ pc = "collected"
    /\ \E i, j, k \in 1..Len(emitted) :
           /\ emitted[i].protocol = "tcp"
           /\ emitted[i].state = "ESTABLISHED"
           /\ emitted[i].source_port \in listenPorts.set
           /\ Named(emitted[i])
           /\ emitted[j].protocol = "tcp"
           /\ emitted[j].state = "CLOSE"
           /\ emitted[j].source_port = emitted[i].source_port
           /\ ~Named(emitted[j])
           /\ emitted[k].protocol = "udp"
           /\ emitted[k].source_port = emitted[i].source_port
           /\ ~Named(emitted[k])

-----------------------------------------------------------------------------
(* SpecAttribution: one read of the TCP table for each way ss can end.     *)

\* What ss gives: no output and an error (the command is absent), an exit
\* with an error after the listeners were printed, an output without a
\* LISTEN line that names a process, and the output that names the listeners.
AttributionOutcomes ==
    SsOutcomes
        \cup {[err |-> TRUE, lines |-> <<SS_HEADER, SS_SSHD>>],
              [err |-> FALSE, lines |-> <<SS_HEADER, SS_UDP, SS_NOPROC>>]}

\* The caches the read starts from: not built, and built on the quiet host.
AttributionCaches == {NilCache, MapOf(getNetworkInterfaces(QuietEnv).m)}

AttributionInit ==
    /\ pc = "attribute"
    /\ CodecIdle
    /\ tcpTable \in CollectTcpTables
    /\ udpTable = Unread
    /\ ssOut \in AttributionOutcomes
    /\ listenPorts \in ReaderPortSets
    /\ ret = NoRet
    /\ emitted = << >>
    /\ host \in ReaderEnvs
    /\ interfaceCache \in AttributionCaches
    /\ call = NoCall
    /\ prevAny = NoPrev
    /\ pass = NoPasses

\* One call of getTCPConnections on the table, with ss ending as drawn.
Attribute ==
    /\ pc = "attribute"
    /\ \E r \in {getTCPConnections(tcpTable, ssOut, listenPorts, interfaceCache, host)} :
           /\ ret' = [proto |-> "tcp", err |-> r.err, conns |-> r.conns]
           /\ interfaceCache' = r.cache
    /\ pc' = "attributed"
    /\ UNCHANGED <<tcpTable, udpTable, ssOut, listenPorts, emitted, host, call,
                   prevAny, pass, codecVars>>

AttributionNext == Attribute

SpecAttribution == AttributionInit /\ [][AttributionNext]_vars

-----------------------------------------------------------------------------
(* Process Attribution: claims on the reads without attribution.           *)

\* The output of ss when attribution succeeds.
SsSucceeds == CHOOSE o \in SsOutcomes : ~o.err

\* The records with their process names taken out.
Blank(conns) == [i \in 1..Len(conns) |-> [conns[i] EXCEPT !.processName = << >>]]

\* C18: when ss is absent, exits with an error or prints no LISTEN line
\* that can be parsed, the port-to-name mapping is empty, the read returns
\* no error, every record has the empty process name, and the records are
\* otherwise those of the same read with attribution succeeding: same rows,
\* addresses, ports, states and interfaces.
C18_AttributionIsAdvisory ==
    [][(/\ pc = "attribute"
        /\ tcpTable.open
        /\ (ssOut.err \/ ParseSs(EmptyMap, ssOut.lines) = EmptyMap))
           => /\ listenProcMap(ssOut) = EmptyMap
              /\ ret'.err = "nil"
              /\ \A i \in 1..Len(ret'.conns) : ret'.conns[i].processName = << >>
              /\ ret'.conns =
                     Blank(getTCPConnections(tcpTable, SsSucceeds, listenPorts,
                                             interfaceCache, host).conns)]_vars

\* ss exited with an error after printing the listener of port 22: the
\* LISTEN record of that port has no name, and would have one otherwise.
C18_Witness ==
    /\ pc = "attributed"
    /\ ret.err = "nil"
    /\ ssOut.err
    /\ ssOut.lines # << >>
    /\ \E i \in 1..Len(ret.conns) :
           /\ ret.conns[i].state = LISTEN
           /\ ret.conns[i].processName = << >>
           /\ Has(listenProcMap(SsSucceeds), ret.conns[i].sourcePort)

-----------------------------------------------------------------------------
(* SpecScrapes: two collection passes at a time.  main registers the       *)
(* collector and serves /metrics with promhttp.Handler() on the default    *)
(* http server (lines 1630-1643): every request runs in a goroutine of its *)
(* own and gathers the registry, so two requests run Collect, and with it  *)
(* getInterfaceForIP, at the same time.  The code takes no lock.  Each     *)
(* statement of getInterfaceForIP that reads or writes the package         *)
(* variable interfaceCache is a step of its own.                           *)

\* The hosts of the concurrent passes: all answers; the addresses moved to
\* other interfaces; nothing answers.
ScrapeEnvs == {
    QuietEnv,
    [cfg |-> 3, ifErr |-> "nil", ipAt |-> 1, addrOK |-> TRUE, routeOK |-> TRUE],
    DeafEnv
}

ScrapeIPs == {IPString(<<10, 0, 0, 5>>), IPString(<<10, 0, 0, 77>>), IP_ANY}

\* The map a failed or successful getNetworkInterfaces() leaves in the
\* variable: nil with the error (lines 1122 and 1149 assign both results).
Assigned(local) == IF local.err THEN NilCache ELSE MapOf(local.m)

\* A map with some of another map's entries.
Restrict(m, S) == [k \in S |-> m[k]]

\* What a read of interfaceCache by pass p can return.  The variable is read
\* and written without synchronisation: while another pass is between
\* building a map and having assigned it, the read returns the value the
\* variable holds, the map being assigned, or that map with only some of
\* its entries visible.
Views(p) ==
    {interfaceCache}
    \cup UNION {
           {MapOf(Restrict(Assigned(pass[q].local).m, S)) :
                S \in SUBSET DOMAIN Assigned(pass[q].local).m}
           \cup {Assigned(pass[q].local)} :
           q \in {r \in Passes \ {p} : pass[r].at \in {"store", "restore"}} }

At(p, where) == pass[p].at = where
Goto(p, where) == pass' = [pass EXCEPT ![p].at = where]
Answer(p, iface) == pass' = [pass EXCEPT ![p].at = "done", ![p].iface = iface]

ScrapesInit ==
    /\ pc = "serving"
    /\ CodecIdle
    /\ ReaderIdle
    /\ host \in ScrapeEnvs
    /\ interfaceCache = NilCache
    /\ call = NoCall
    /\ prevAny = NoPrev
    /\ pass = NoPasses

\* A pass comes to a connection and calls getInterfaceForIP(ip).
Enter(p) ==
    /\ At(p, "idle")
    /\ \E ip \in ScrapeIPs :
           pass' = [pass EXCEPT ![p] = [IdlePass EXCEPT !.at = "check", !.ip = ip]]
    /\ UNCHANGED <<pc, host, interfaceCache, call, prevAny, codecVars, readerVars>>

\* Line 1120: if interfaceCache == nil.
CheckNil(p) ==
    /\ At(p, "check")
    /\ \E view \in Views(p) : Goto(p, IF view.built THEN "lookup" ELSE "build")
    /\ UNCHANGED <<pc, host, interfaceCache, call, prevAny, codecVars, readerVars>>

\* Lines 1122 and 1149, right-hand side: getNetworkInterfaces() runs and
\* returns a map of its own.
Build(p) ==
    /\ pass[p].at \in {"build", "refresh"}
    /\ \E r \in {getNetworkInterfaces(host)} :
           pass' = [pass EXCEPT
                      ![p].at = IF pass[p].at = "build" THEN "store" ELSE "restore",
                      ![p].local = [err |-> r.err, m |-> r.m]]
    /\ UNCHANGED <<pc, host, interfaceCache, call, prevAny, codecVars, readerVars>>

\* Lines 1122-1126: the assignment to interfaceCache, and the return of
\* "unknown" on an error.
Store(p) ==
    /\ At(p, "store")
    /\ interfaceCache' = Assigned(pass[p].local)
    /\ IF pass[p].local.err THEN Answer(p, UNKNOWN_IF) ELSE Goto(p, "lookup")
    /\ UNCHANGED <<pc, host, call, prevAny, codecVars, readerVars>>

\* Lines 1130-1145: the lookup and the special addresses.
Lookup(p) ==
    /\ At(p, "lookup")
    /\ \E view \in Views(p) :
           IF Has(view.m, pass[p].ip) THEN Answer(p, view.m[pass[p].ip])
           ELSE IF pass[p].ip = IP_LOOPBACK THEN Answer(p, LO)
           ELSE IF pass[p].ip = IP_ANY THEN Answer(p, getPrimaryInterface(host))
           ELSE Goto(p, "refresh")
    /\ UNCHANGED <<pc, host, interfaceCache, call, prevAny, codecVars, readerVars>>

\* Lines 1149-1153: the assignment of the refreshed map.
Restore(p) ==
    /\ At(p, "restore")
    /\ interfaceCache' = Assigned(pass[p].local)
    /\ IF pass[p].local.err THEN Answer(p, UNKNOWN_IF) ELSE Goto(p, "relookup")
    /\ UNCHANGED <<pc, host, call, prevAny, codecVars, readerVars>>

\* Lines 1156-1166: the second lookup, then the subnet match.
Relookup(p) ==
    /\ At(p, "relookup")
    /\ \E view \in Views(p) :
           IF Has(view.m, pass[p].ip) THEN Answer(p, view.m[pass[p].ip])
           ELSE Answer(p, getInterfaceBySubnet(host, pass[p].ip))
    /\ UNCHANGED <<pc, host, interfaceCache, call, prevAny, codecVars, readerVars>>

\* getInterfaceForIP has returned.
Leave(p) ==
    /\ At(p, "done")
    /\ pass' = [pass EXCEPT ![p] = IdlePass]
    /\ UNCHANGED <<pc, host, interfaceCache, call, prevAny, codecVars, readerVars>>

\* The host's configuration changes while requests are served.
Rewire ==
    /\ pc = "serving"
    /\ host' \in ScrapeEnvs \ {host}
    /\ UNCHANGED <<pc, interfaceCache, call, prevAny, pass, codecVars, readerVars>>

ScrapesNext ==
    \/ \E p \in Passes :
          \/ Enter(p)
          \/ CheckNil(p)
          \/ Build(p)
          \/ Store(p)
          \/ Lookup(p)
          \/ Restore(p)
          \/ Relookup(p)
          \/ Leave(p)
    \/ Rewire

SpecScrapes == ScrapesInit /\ [][ScrapesNext]_vars

-----------------------------------------------------------------------------
(* Concurrency: claims on the interface cache under concurrent scrapes.    *)

\* The pass has built a map and has not finished replacing the cache.
InRebuild(p) == pass[p].at \in {"store", "restore"}

\* The pass takes a step that reads or replaces the cache.
Touches(q) ==
    /\ pass[q].at \in {"check", "lookup", "relookup", "store", "restore"}
    /\ pass'[q] # pass[q]

\* C16: cache rebuilds are serialized: while one pass is building and
\* replacing the interface cache no other pass reads or replaces it, so no
\* pass observes the cache in the middle of another pass's rebuild.
C16_RebuildsSerialized ==
    [][\A p \in Passes : InRebuild(p) => \A q \in Passes \ {p} : ~Touches(q)]_vars

====
